---- MODULE Spec2Model ----
(***************************************************************************)
(* geo-tui: the viewport, the navigation operations, the point store and   *)
(* the render entry points, as a state machine.                            *)
(*                                                                         *)
(* Numbers.  Viewport fields, pan deltas, zoom factors and bounds are      *)
(* Python floats: binary floating point, every operation rounded to        *)
(* nearest, ties to even.  A float is modelled as [m, e], the value        *)
(* m * 2^e with m odd (or m = 0, e = 0), |m| < 2^Precision.  Precision is  *)
(* the width of the significand; the exponent is unbounded (no overflow    *)
(* to infinity, no underflow).                                             *)
(***************************************************************************)
EXTENDS Integers, Sequences, FiniteSets, TLC

\* Significand width of the modelled float (IEEE double: 53).  14 is the
\* least width that holds the default scale 1_000_000 = 15625 * 2^6 exactly.
Precision == 14

Abs(n) == IF n < 0 THEN -n ELSE n

RECURSIVE BitLen(_)
BitLen(n) == IF n = 0 THEN 0 ELSE 1 + BitLen(n \div 2)

RECURSIVE Norm(_, _)
Norm(m, e) ==
    IF m = 0 THEN [m |-> 0, e |-> 0]
    ELSE IF m % 2 = 0 THEN Norm(m \div 2, e + 1)
    ELSE [m |-> m, e |-> e]

\* n * 2^e rounded to Precision significant bits, ties to even.
Round(n, e) ==
    LET a == Abs(n)
        k == BitLen(a) - Precision
    IN  IF k <= 0 THEN Norm(n, e)
        ELSE LET q    == a \div (2 ^ k)
                 r    == a % (2 ^ k)
                 half == 2 ^ (k - 1)
                 up   == r > half \/ (r = half /\ q % 2 = 1)
                 q2   == IF up THEN q + 1 ELSE q
             IN  Norm(IF n < 0 THEN -q2 ELSE q2, e + k)

FromInt(n) == Round(n, 0)

FZero == [m |-> 0, e |-> 0]

Top(a) == a.e + BitLen(Abs(a.m))

FNeg(a) == [m |-> -a.m, e |-> a.e]

\* a + b.  An operand more than Precision + 1 binary places below the other
\* is under a quarter of its last place and rounds away.
FAdd(a, b) ==
    IF a.m = 0 THEN b
    ELSE IF b.m = 0 THEN a
    ELSE IF Top(a) - Top(b) > Precision + 1 THEN a
    ELSE IF Top(b) - Top(a) > Precision + 1 THEN b
    ELSE LET e == IF a.e < b.e THEN a.e ELSE b.e
         IN  Round(a.m * (2 ^ (a.e - e)) + b.m * (2 ^ (b.e - e)), e)

FSub(a, b) == FAdd(a, FNeg(b))

FMul(a, b) == Round(a.m * b.m, a.e + b.e)

\* a / b for b # 0: the quotient to Precision + 1 bits and a sticky bit.
FDiv(a, b) ==
    IF a.m = 0 THEN FZero
    ELSE LET na == Abs(a.m)
             nb == Abs(b.m)
             s  == Precision + 1 + BitLen(nb) - BitLen(na)
             n  == na * (2 ^ s)
             q  == n \div nb
             st == IF n % nb = 0 THEN 0 ELSE 1
             sg == IF (a.m < 0) = (b.m < 0) THEN 1 ELSE -1
         IN  Round(sg * (2 * q + st), a.e - b.e - s - 1)

\* The rounded difference has the sign of the exact one.
FLt(a, b) == FSub(a, b).m < 0
FLe(a, b) == FSub(a, b).m <= 0
FMin(a, b) == IF FLt(b, a) THEN b ELSE a

(***************************************************************************)
(* State.                                                                  *)
(*   center_x, center_y, meters_per_pixel   the one Viewport of a session  *)
(*   projected_geometries   MapService._projected_geometries:              *)
(*       [loaded, series, lines]; loaded = FALSE is Python's None, series  *)
(*       tells a GeoSeries from a plain list, lines are the polylines      *)
(*   timer_pending   the one-shot timer on_mount sets for _adjust_viewport *)
(*   calls           the calls made so far, each with its arguments, the   *)
(*                   viewport before it and the value it returned          *)
(*   points          MapService._points, a list of MapPoint                *)
(*   plast           the last call on the point store: its arguments, the  *)
(*                   list before it, whether it raised                     *)
(***************************************************************************)
VARIABLES center_x, center_y, meters_per_pixel, projected_geometries,
          timer_pending, calls, points, plast, rlast, braille_grid, glast

vars == <<center_x, center_y, meters_per_pixel, projected_geometries,
          timer_pending, calls, points, plast, rlast, braille_grid, glast>>

\* The braille grid being drawn and the last call on it.
rasterVars == <<braille_grid, glast>>

\* The point store and its history, untouched by the viewport operations.
pointVars == <<points, plast>>

\* The viewport, the geometry and their history, untouched by the point store.
viewVars == <<center_x, center_y, meters_per_pixel, projected_geometries,
              timer_pending, calls, rlast>>

\* Length of the call sequences explored.
MaxOps == 3

DefaultScale == FromInt(1000000)

Viewport(cx, cy, mpp) == [center_x |-> cx, center_y |-> cy, meters_per_pixel |-> mpp]

Current == Viewport(center_x, center_y, meters_per_pixel)

Pt(x, y) == <<FromInt(x), FromInt(y)>>

None == <<>>

\* The geometry a session may have loaded: an empty list, a coastline-sized
\* polyline, a single meridian (zero width).
NoLines == [loaded |-> TRUE, series |-> FALSE, lines |-> <<>>]
Coast == [loaded |-> TRUE, series |-> FALSE,
          lines |-> << <<Pt(-20000000, -10000000), Pt(0, 16000000), Pt(20000000, 8000000)>> >>]
Meridian == [loaded |-> TRUE, series |-> FALSE,
             lines |-> << <<Pt(5000, -10000000), Pt(5000, 10000000)>> >>]

RECURSIVE Flatten(_)
Flatten(ls) == IF ls = <<>> THEN <<>> ELSE Head(ls) \o Flatten(Tail(ls))

RECURSIVE FMinOf(_)
FMinOf(xs) ==
    IF Len(xs) = 1 THEN xs[1]
    ELSE LET r == FMinOf(Tail(xs)) IN IF FLt(r, xs[1]) THEN r ELSE xs[1]

RECURSIVE FMaxOf(_)
FMaxOf(xs) ==
    IF Len(xs) = 1 THEN xs[1]
    ELSE LET r == FMaxOf(Tail(xs)) IN IF FLt(xs[1], r) THEN r ELSE xs[1]

\* MapService.get_geometry_bounds: None, or (minx, miny, maxx, maxy).
GetGeometryBounds(g) ==
    IF ~g.loaded THEN None
    ELSE LET all_coords == Flatten(g.lines)
         IN  IF all_coords = <<>> THEN None
             ELSE LET xs == [i \in 1..Len(all_coords) |-> all_coords[i][1]]
                      ys == [i \in 1..Len(all_coords) |-> all_coords[i][2]]
                  IN  <<FMinOf(xs), FMinOf(ys), FMaxOf(xs), FMaxOf(ys)>>

\* get_bounds without the halving of the extent.
GetBoundsOf_FullExtent(v, width_px, height_px) ==
    LET width_m  == FMul(FromInt(width_px), v.meters_per_pixel)
        height_m == FMul(FromInt(height_px), v.meters_per_pixel)
    IN  <<FSub(v.center_x, width_m), FSub(v.center_y, height_m),
          FAdd(v.center_x, width_m), FAdd(v.center_y, height_m)>>

\* Viewport.get_bounds
GetBoundsOf(v, width_px, height_px) ==
    LET half_width_m  == FDiv(FMul(FromInt(width_px), v.meters_per_pixel), FromInt(2))
        half_height_m == FDiv(FMul(FromInt(height_px), v.meters_per_pixel), FromInt(2))
    IN  <<FSub(v.center_x, half_width_m), FSub(v.center_y, half_height_m),
          FAdd(v.center_x, half_width_m), FAdd(v.center_y, half_height_m)>>

\* pan with the center clamped to a world extent.
FClamp(x, lim) == IF FLt(lim, x) THEN lim ELSE IF FLt(x, FNeg(lim)) THEN FNeg(lim) ELSE x
PanOf_Clamped(v, delta_x, delta_y) ==
    Viewport(FClamp(FAdd(v.center_x, delta_x), FromInt(20000)),
             FClamp(FAdd(v.center_y, delta_y), FromInt(20000)), v.meters_per_pixel)

\* pan taking its deltas in pixels.
PanOf_PixelDeltas(v, delta_x, delta_y) ==
    Viewport(FAdd(v.center_x, FMul(delta_x, v.meters_per_pixel)),
             FAdd(v.center_y, FMul(delta_y, v.meters_per_pixel)), v.meters_per_pixel)

\* Viewport.pan
PanOf(v, delta_x, delta_y) ==
    Viewport(FAdd(v.center_x, delta_x), FAdd(v.center_y, delta_y), v.meters_per_pixel)

\* zoom that divides the scale by the factor.
ZoomOf_Divides(v, factor) ==
    Viewport(v.center_x, v.center_y, FDiv(v.meters_per_pixel, factor))

\* Viewport.zoom
ZoomOf(v, factor) ==
    Viewport(v.center_x, v.center_y, FMul(v.meters_per_pixel, factor))

\* reset that restores the center only.
ResetOf_KeepsScale(v, cx, cy, mpp) == Viewport(cx, cy, v.meters_per_pixel)

\* Viewport.reset
ResetOf(v, cx, cy, mpp) == Viewport(cx, cy, mpp)

\* MapApp._adjust_viewport, for a screen of sw x sh characters.
PaddingFactor == FDiv(FromInt(105), FromInt(100))
EarthCircumference == FromInt(40075017)

AdjustOf(v, g, sw, sh) ==
    IF ~(sw > 0 /\ sh > 0) THEN v
    ELSE LET bounds == GetGeometryBounds(g)
         IN  IF bounds # None
             THEN LET minx == bounds[1]
                      miny == bounds[2]
                      maxx == bounds[3]
                      maxy == bounds[4]
                      globe_width_m  == FSub(maxx, minx)
                      globe_height_m == FSub(maxy, miny)
                      available_height == sh - 2
                      available_width  == sw
                      terminal_width_px  == available_width * 2
                      terminal_height_px == available_height * 4
                      meters_per_pixel_x ==
                          IF terminal_width_px > 0
                          THEN FDiv(FMul(globe_width_m, PaddingFactor), FromInt(terminal_width_px))
                          ELSE DefaultScale
                      meters_per_pixel_y ==
                          IF terminal_height_px > 0
                          THEN FDiv(FMul(globe_height_m, PaddingFactor), FromInt(terminal_height_px))
                          ELSE DefaultScale
                  IN  Viewport(FDiv(FAdd(minx, maxx), FromInt(2)),
                               FDiv(FAdd(miny, maxy), FromInt(2)),
                               FMin(meters_per_pixel_x, meters_per_pixel_y))
             ELSE LET terminal_width_px == sw * 2
                  IN  IF terminal_width_px > 0
                      THEN Viewport(v.center_x, v.center_y,
                                    FDiv(EarthCircumference, FromInt(terminal_width_px)))
                      ELSE v

Call(op, a, b, c, w, h, ret) ==
    [op |-> op, a |-> a, b |-> b, c |-> c, w |-> w, h |-> h, pre |-> Current, ret |-> ret]

SetViewport(v) ==
    /\ center_x' = v.center_x
    /\ center_y' = v.center_y
    /\ meters_per_pixel' = v.meters_per_pixel

\* No call on the point store yet.
NoCall == [op |-> "none", longitude |-> 0, latitude |-> 0, data |-> 0,
           pre |-> <<>>, raised |-> FALSE]

\* No call on a braille grid yet.
NoRaster == [op |-> "none", p0 |-> <<>>, p1 |-> <<>>, pre |-> <<>>, visits |-> <<>>,
             text |-> <<>>]

\* No call of render yet.
NoRender == [op |-> "none", width |-> 0, height |-> 0, viewport |-> <<>>,
             geometries |-> <<>>, survives |-> FALSE, ret |-> <<>>]

\* Arguments the calls are tried with.
PanDeltas == {<<100, 200>>, <<-100, -200>>, <<16384, 16384>>, <<-16384, -16384>>}
ZoomFactors == {FDiv(FromInt(1), FromInt(2)), FromInt(2), FromInt(0), FromInt(-1)}
ResetArgs == {<<50, 75, 2000>>, <<1, 1, 1000>>, <<10, 20, -5>>}
ScreenSizes == {<<80, 24>>, <<2, 2>>, <<0, 24>>}
BoundsSizes == {<<200, 100>>, <<1, 1>>}

Init ==
    /\ center_x = FZero
    /\ center_y = FZero
    /\ meters_per_pixel = DefaultScale
    /\ projected_geometries \in {NoLines, Coast, Meridian}
    /\ timer_pending = TRUE
    /\ calls = <<>>
    /\ points = <<>>
    /\ plast = NoCall
    /\ rlast = NoRender
    /\ braille_grid = <<>>
    /\ glast = NoRaster

Pan(delta_x, delta_y) ==
    /\ Len(calls) < MaxOps
    /\ SetViewport(PanOf(Current, delta_x, delta_y))
    /\ calls' = Append(calls, Call("pan", delta_x, delta_y, FZero, 0, 0, None))
    /\ UNCHANGED <<projected_geometries, timer_pending, pointVars, rlast, rasterVars>>

Zoom(factor) ==
    /\ Len(calls) < MaxOps
    /\ SetViewport(ZoomOf(Current, factor))
    /\ calls' = Append(calls, Call("zoom", factor, FZero, FZero, 0, 0, None))
    /\ UNCHANGED <<projected_geometries, timer_pending, pointVars, rlast, rasterVars>>

\* Viewport.reset() with its defaults
Reset ==
    /\ Len(calls) < MaxOps
    /\ SetViewport(ResetOf(Current, FZero, FZero, DefaultScale))
    /\ calls' = Append(calls, Call("reset", FZero, FZero, FZero, 0, 0, None))
    /\ UNCHANGED <<projected_geometries, timer_pending, pointVars, rlast, rasterVars>>

ResetTo(cx, cy, mpp) ==
    /\ Len(calls) < MaxOps
    /\ SetViewport(ResetOf(Current, cx, cy, mpp))
    /\ calls' = Append(calls, Call("reset_to", cx, cy, mpp, 0, 0, None))
    /\ UNCHANGED <<projected_geometries, timer_pending, pointVars, rlast, rasterVars>>

\* NavigationService.reset
NavReset ==
    /\ Len(calls) < MaxOps
    /\ SetViewport(ResetOf(Current, FZero, FZero, DefaultScale))
    /\ calls' = Append(calls, Call("nav_reset", FZero, FZero, FZero, 0, 0, None))
    /\ UNCHANGED <<projected_geometries, timer_pending, pointVars, rlast, rasterVars>>

GetBounds(width_px, height_px) ==
    /\ Len(calls) < MaxOps
    /\ calls' = Append(calls, Call("get_bounds", FZero, FZero, FZero, width_px, height_px,
                                   GetBoundsOf(Current, width_px, height_px)))
    /\ UNCHANGED <<center_x, center_y, meters_per_pixel, projected_geometries, timer_pending, pointVars, rlast, rasterVars>>

AdjustViewport(sw, sh) ==
    /\ Len(calls) < MaxOps
    /\ timer_pending
    /\ timer_pending' = FALSE
    /\ SetViewport(AdjustOf(Current, projected_geometries, sw, sh))
    /\ calls' = Append(calls, Call("adjust", FZero, FZero, FZero, sw, sh, None))
    /\ UNCHANGED <<projected_geometries, pointVars, rlast, rasterVars>>

Next ==
    \/ \E d \in PanDeltas : Pan(FromInt(d[1]), FromInt(d[2]))
    \/ \E f \in ZoomFactors : Zoom(f)
    \/ Reset
    \/ \E r \in ResetArgs : ResetTo(FromInt(r[1]), FromInt(r[2]), FromInt(r[3]))
    \/ NavReset
    \/ \E s \in BoundsSizes : GetBounds(s[1], s[2])
    \/ \E s \in ScreenSizes : AdjustViewport(s[1], s[2])

Spec == Init /\ [][Next]_vars

\* Zoom sequences: the factors of NavigationService.zoom_in (0.8) and
\* zoom_out (1.25), 0.5 and 2.0, and 3.0, from scales 1000 and 1,000,000.
ZoomSteps == {FDiv(FromInt(4), FromInt(5)), FDiv(FromInt(5), FromInt(4)),
              FDiv(FromInt(1), FromInt(2)), FromInt(2), FromInt(3)}
ZoomScales == {1000, 1000000}

InitZoom ==
    /\ center_x = FZero
    /\ center_y = FZero
    /\ meters_per_pixel \in {FromInt(n) : n \in ZoomScales}
    /\ projected_geometries = [loaded |-> FALSE, series |-> FALSE, lines |-> <<>>]
    /\ timer_pending = FALSE
    /\ calls = <<>>
    /\ points = <<>>
    /\ plast = NoCall
    /\ rlast = NoRender
    /\ braille_grid = <<>>
    /\ glast = NoRaster

NextZoom ==
    \/ \E f \in ZoomSteps : Zoom(f)
    \/ \E d \in {<<100, 200>>} : Pan(FromInt(d[1]), FromInt(d[2]))

SpecZoom == InitZoom /\ [][NextZoom]_vars

(***************************************************************************)
(* The point store.  Longitudes and latitudes are decimal degrees with     *)
(* five places, held as integers in units of 0.00001 degree; at this       *)
(* resolution the range tests and the tests against 0.0001 come out in     *)
(* floating point as they do exactly.                                      *)
(***************************************************************************)
\* 180, 90 and 0.0001 degrees in units of 0.00001 degree.
MaxLongitude == 18000000
MaxLatitude == 9000000
Epsilon == 10

\* Number of stored points explored.
MaxPoints == 3

\* MapPoint.__post_init__ with a strict upper test on the longitude.
ValidCoordinates_StrictLongitude(longitude, latitude) ==
    /\ -MaxLongitude <= longitude /\ longitude < MaxLongitude
    /\ -MaxLatitude <= latitude /\ latitude <= MaxLatitude

\* MapPoint.__post_init__ without the test on the latitude.
ValidCoordinates_LongitudeOnly(longitude, latitude) ==
    -MaxLongitude <= longitude /\ longitude <= MaxLongitude

\* MapPoint.__post_init__: the condition under which no ValueError is raised.
ValidCoordinates(longitude, latitude) ==
    /\ -MaxLongitude <= longitude /\ longitude <= MaxLongitude
    /\ -MaxLatitude <= latitude /\ latitude <= MaxLatitude

\* MapPoint(longitude, latitude, data), once constructed.
MapPoint(longitude, latitude, data) ==
    [longitude |-> longitude, latitude |-> latitude, data |-> data]

\* The test of update_map_data on a stored point.
Near(existing_point, point) ==
    /\ Abs(existing_point.longitude - point.longitude) < Epsilon
    /\ Abs(existing_point.latitude - point.latitude) < Epsilon

\* update_map_data without the return after the replacement: the new point
\* is stored in place and appended as well.
UpdateOf_NoReturn(pts, point) ==
    LET hits == {i \in 1..Len(pts) : Near(pts[i], point)}
    IN  IF hits = {} THEN Append(pts, point)
        ELSE LET i == CHOOSE k \in hits : \A j \in hits : k <= j
             IN  Append([pts EXCEPT ![i] = point], point)

\* MapService.update_map_data, after update.to_point(): the first stored
\* point near the new one is replaced by it, else the new one is appended.
UpdateOf(pts, point) ==
    LET hits == {i \in 1..Len(pts) : Near(pts[i], point)}
    IN  IF hits = {} THEN Append(pts, point)
        ELSE LET i == CHOOSE k \in hits : \A j \in hits : k <= j
             IN  [pts EXCEPT ![i] = point]

PCall(op, longitude, latitude, data, raised) ==
    [op |-> op, longitude |-> longitude, latitude |-> latitude, data |-> data,
     pre |-> points, raised |-> raised]

\* Coordinates the constructor is tried with: (45, -30), corners of the
\* valid range, values just outside and far outside it.
ConstructorArgs == {<<4500000, -3000000>>, <<18000000, 9000000>>, <<-18000000, -9000000>>,
                    <<18000001, 0>>, <<-18000001, 0>>, <<0, 9000001>>, <<0, -9000001>>,
                    <<20000000, 0>>, <<0, -9500000>>, <<20000000, -9500000>>}
Datas == {1, 2}

\* Coordinates the store is called with: (45, -30); (45.00005, -30.00003),
\* near it; (45.00012, -30.00003), near the second and not the first; a
\* corner of the valid range; a longitude out of range; a latitude just
\* out of range.
Coordinates == {<<4500000, -3000000>>, <<4500005, -3000003>>, <<4500012, -3000003>>,
                <<18000000, 9000000>>, <<20000000, 0>>, <<0, 9000001>>}

InitPoints ==
    /\ center_x = FZero
    /\ center_y = FZero
    /\ meters_per_pixel = DefaultScale
    /\ projected_geometries = [loaded |-> FALSE, series |-> FALSE, lines |-> <<>>]
    /\ timer_pending = TRUE
    /\ calls = <<>>
    /\ points = <<>>
    /\ plast = NoCall
    /\ rlast = NoRender
    /\ braille_grid = <<>>
    /\ glast = NoRaster

\* MapPoint(longitude, latitude, data) constructed by a caller.
MakePoint(longitude, latitude, data) ==
    /\ plast' = PCall("make", longitude, latitude, data,
                      ~ValidCoordinates(longitude, latitude))
    /\ UNCHANGED <<points, viewVars, rasterVars>>

\* MapService.add_point of a point the caller constructed.
AddPoint(longitude, latitude, data) ==
    /\ Len(points) < MaxPoints
    /\ IF ValidCoordinates(longitude, latitude)
       THEN /\ points' = Append(points, MapPoint(longitude, latitude, data))
            /\ plast' = PCall("add", longitude, latitude, data, FALSE)
       ELSE /\ points' = points
            /\ plast' = PCall("add", longitude, latitude, data, TRUE)
    /\ UNCHANGED <<viewVars, rasterVars>>

\* MapService.update_map_data(MapDataUpdate(longitude, latitude, data))
UpdateMapData(longitude, latitude, data) ==
    /\ Len(points) < MaxPoints
    /\ IF ValidCoordinates(longitude, latitude)
       THEN /\ points' = UpdateOf(points, MapPoint(longitude, latitude, data))
            /\ plast' = PCall("update", longitude, latitude, data, FALSE)
       ELSE /\ points' = points
            /\ plast' = PCall("update", longitude, latitude, data, TRUE)
    /\ UNCHANGED <<viewVars, rasterVars>>

\* MapService.clear_points
ClearPoints ==
    /\ points' = <<>>
    /\ plast' = PCall("clear", 0, 0, 0, FALSE)
    /\ UNCHANGED <<viewVars, rasterVars>>

NextPoints ==
    \/ \E c \in ConstructorArgs, d \in Datas : MakePoint(c[1], c[2], d)
    \/ \E c \in Coordinates, d \in Datas : AddPoint(c[1], c[2], d)
    \/ \E c \in Coordinates, d \in Datas : UpdateMapData(c[1], c[2], d)
    \/ ClearPoints

SpecPoints == InitPoints /\ [][NextPoints]_vars

\* The store driven by update_map_data alone, from the empty list.
NextUpdates ==
    \E c \in Coordinates, d \in Datas : UpdateMapData(c[1], c[2], d)

SpecUpdates == InitPoints /\ [][NextUpdates]_vars

(***************************************************************************)
(* Rendering.  A text is the sequence of its code points; "" is <<>>.      *)
(* A render call returns [raised, text]: raised tells an exception.        *)
(***************************************************************************)
BrailleBase == 10240
Space == 32
Newline == 10

\* A dot table that numbers the dots row by row.
DotBit_RowByRow(sx, sy) == 2 ^ (2 * sy + sx)

\* _DOT_BIT
DotBit(sx, sy) ==
    CASE sx = 0 /\ sy = 0 -> 1
      [] sx = 0 /\ sy = 1 -> 2
      [] sx = 0 /\ sy = 2 -> 4
      [] sx = 0 /\ sy = 3 -> 64
      [] sx = 1 /\ sy = 0 -> 8
      [] sx = 1 /\ sy = 1 -> 16
      [] sx = 1 /\ sy = 2 -> 32
      [] sx = 1 /\ sy = 3 -> 128

\* mask | bit, for a single bit
BitOr(mask, bit) == IF (mask \div bit) % 2 = 1 THEN mask ELSE mask + bit

\* A grid kept from one call to the next when its size has not changed.
EmptyBrailleGrid_Reused(cols, rows) ==
    IF rows > 0 /\ Len(braille_grid) = rows /\ Len(braille_grid[1]) = cols
    THEN braille_grid
    ELSE [r \in 1..rows |-> [c \in 1..cols |-> 0]]

\* _empty_braille_grid: rows of cols zero masks; row r, column c of the
\* Python grid is grid[r + 1][c + 1].
EmptyBrailleGrid(cols, rows) == [r \in 1..rows |-> [c \in 1..cols |-> 0]]

\* _set_subpixel
SetSubpixel(grid, col, row, sx, sy) ==
    IF 0 <= row /\ row < Len(grid) /\ 0 <= col /\ col < Len(grid[1])
    THEN [grid EXCEPT ![row + 1][col + 1] = BitOr(@, DotBit(sx, sy))]
    ELSE grid

\* int(x) of a float: truncation toward zero.
ToInt(a) ==
    IF a.e >= 0 THEN a.m * (2 ^ a.e)
    ELSE IF Top(a) <= 0 THEN 0
    ELSE LET q == Abs(a.m) \div (2 ^ (-a.e)) IN IF a.m < 0 THEN -q ELSE q

\* A loop that ends at the first subpixel outside the canvas.
RECURSIVE Bresenham_StopsOutside(_, _, _, _, _)
Bresenham_StopsOutside(grid, x0, y0, err, ln) ==
    IF ~(0 <= x0 /\ x0 < ln.width_px /\ 0 <= y0 /\ y0 < ln.height_px) THEN grid
    ELSE LET g1 == SetSubpixel(grid, x0 \div 2, y0 \div 4, x0 % 2, y0 % 4)
         IN  IF x0 = ln.x1 /\ y0 = ln.y1 THEN g1
             ELSE LET e2   == 2 * err
                      stepx == e2 >= ln.dy
                      stepy == e2 <= ln.dx
                  IN  Bresenham_StopsOutside(
                          g1,
                          IF stepx THEN x0 + ln.sx ELSE x0,
                          IF stepy THEN y0 + ln.sy ELSE y0,
                          err + (IF stepx THEN ln.dy ELSE 0) + (IF stepy THEN ln.dx ELSE 0),
                          ln)

\* The loop of _rasterize_line_to_braille from (x0, y0) with error term err;
\* ln holds what the loop does not change.
RECURSIVE Bresenham(_, _, _, _, _)
Bresenham(grid, x0, y0, err, ln) ==
    LET g1 == IF 0 <= x0 /\ x0 < ln.width_px /\ 0 <= y0 /\ y0 < ln.height_px
              THEN SetSubpixel(grid, x0 \div 2, y0 \div 4, x0 % 2, y0 % 4)
              ELSE grid
    IN  IF x0 = ln.x1 /\ y0 = ln.y1 THEN g1
        ELSE LET e2   == 2 * err
                 stepx == e2 >= ln.dy
                 stepy == e2 <= ln.dx
             IN  Bresenham(g1,
                           IF stepx THEN x0 + ln.sx ELSE x0,
                           IF stepy THEN y0 + ln.sy ELSE y0,
                           err + (IF stepx THEN ln.dy ELSE 0) + (IF stepy THEN ln.dx ELSE 0),
                           ln)

\* A rasterizer that sets the two ends of the segment only.
RasterizeLine_EndsOnly(grid, p0, p1, width_px, height_px) ==
    LET x0 == ToInt(p0[1])
        y0 == ToInt(p0[2])
        x1 == ToInt(p1[1])
        y1 == ToInt(p1[2])
        g1 == IF 0 <= x0 /\ x0 < width_px /\ 0 <= y0 /\ y0 < height_px
              THEN SetSubpixel(grid, x0 \div 2, y0 \div 4, x0 % 2, y0 % 4)
              ELSE grid
    IN  IF 0 <= x1 /\ x1 < width_px /\ 0 <= y1 /\ y1 < height_px
        THEN SetSubpixel(g1, x1 \div 2, y1 \div 4, x1 % 2, y1 % 4)
        ELSE g1

\* _rasterize_line_to_braille
RasterizeLine(grid, p0, p1, width_px, height_px) ==
    LET x0 == ToInt(p0[1])
        y0 == ToInt(p0[2])
        x1 == ToInt(p1[1])
        y1 == ToInt(p1[2])
        dx == Abs(x1 - x0)
        dy == -Abs(y1 - y0)
    IN  Bresenham(grid, x0, y0, dx + dy,
                  [x1 |-> x1, y1 |-> y1, dx |-> dx, dy |-> dy,
                   sx |-> IF x0 < x1 THEN 1 ELSE -1,
                   sy |-> IF y0 < y1 THEN 1 ELSE -1,
                   width_px |-> width_px, height_px |-> height_px])

\* draw_lines on one transformed polyline: its consecutive vertex pairs.
RECURSIVE DrawCoords(_, _, _, _, _)
DrawCoords(grid, coords, i, width_px, height_px) ==
    IF i >= Len(coords) THEN grid
    ELSE DrawCoords(RasterizeLine(grid, coords[i], coords[i + 1], width_px, height_px),
                    coords, i + 1, width_px, height_px)

\* _braille_grid_to_str
CellChar(mask) == IF mask # 0 THEN BrailleBase + mask ELSE Space

RECURSIVE JoinLines(_)
JoinLines(lines) ==
    IF lines = <<>> THEN <<>>
    ELSE IF Len(lines) = 1 THEN lines[1]
    ELSE lines[1] \o <<Newline>> \o JoinLines(Tail(lines))

\* A serialization that ends every row, the last one too, with a newline.
BrailleGridToStr_TrailingNewline(grid) ==
    LET rows == Len(grid)
        cols == IF rows > 0 THEN Len(grid[1]) ELSE 0
    IN  JoinLines([r \in 1..rows |-> [c \in 1..cols |-> CellChar(grid[r][c])]])
            \o (IF rows > 0 THEN <<Newline>> ELSE <<>>)

BrailleGridToStr(grid) ==
    LET rows == Len(grid)
        cols == IF rows > 0 THEN Len(grid[1]) ELSE 0
    IN  JoinLines([r \in 1..rows |-> [c \in 1..cols |-> CellChar(grid[r][c])]])

FMax(a, b) == IF FLt(a, b) THEN b ELSE a

RECURSIVE MinExp(_)
MinExp(xs) ==
    IF Len(xs) = 1 THEN xs[1].e
    ELSE LET r == MinExp(Tail(xs)) IN IF xs[1].e < r THEN xs[1].e ELSE r

\* The integer a * 2^(-emin), for emin at most the exponent of a.
Scaled(a, emin) == a.m * (2 ^ (a.e - emin))

\* Twice the signed area of the triangle p, q, corner: its sign tells the
\* side of the line through p and q the corner lies on.
Cross(px, py, qx, qy, cx, cy) == (qx - px) * (cy - py) - (qy - py) * (cx - px)

\* The corners (xlo, ylo) .. (xhi, yhi) are not all strictly on one side of
\* the line through p and q.  Exact, on integers scaled by 2^(-emin).
CornersStraddle(p, q, xlo, ylo, xhi, yhi, emin) ==
    LET px == Scaled(p[1], emin)
        py == Scaled(p[2], emin)
        qx == Scaled(q[1], emin)
        qy == Scaled(q[2], emin)
        x0 == Scaled(xlo, emin)
        y0 == Scaled(ylo, emin)
        x1 == Scaled(xhi, emin)
        y1 == Scaled(yhi, emin)
        cs == {Cross(px, py, qx, qy, x0, y0), Cross(px, py, qx, qy, x0, y1),
               Cross(px, py, qx, qy, x1, y0), Cross(px, py, qx, qy, x1, y1)}
    IN  (\E c \in cs : c <= 0) /\ (\E c \in cs : c >= 0)

\* The segment p-q meets the closed rectangle with corners (xlo, ylo) and
\* (xhi, yhi): their extents overlap on both axes and the corners of the
\* rectangle are not all strictly on one side of the line through p and q.
SegmentMeetsBox(p, q, xlo, ylo, xhi, yhi) ==
    /\ FLe(FMin(p[1], q[1]), xhi) /\ FLe(xlo, FMax(p[1], q[1]))
    /\ FLe(FMin(p[2], q[2]), yhi) /\ FLe(ylo, FMax(p[2], q[2]))
    /\ CornersStraddle(p, q, xlo, ylo, xhi, yhi,
                       MinExp(<<p[1], p[2], q[1], q[2], xlo, ylo, xhi, yhi>>))

\* The same for b = (minx, miny, maxx, maxy) as shapely.geometry.box takes it.
SegmentIntersectsBox(p, q, b) ==
    SegmentMeetsBox(p, q, FMin(b[1], b[3]), FMin(b[2], b[4]),
                    FMax(b[1], b[3]), FMax(b[2], b[4]))

\* geom.intersects(viewport_box) for a LineString
Intersects(line, b) ==
    \E i \in 1..(Len(line) - 1) : SegmentIntersectsBox(line[i], line[i + 1], b)

\* geometries.sindex.intersection(bounds): the lines whose extent overlaps.
ExtentOverlaps(line, b) ==
    LET xs == [i \in 1..Len(line) |-> line[i][1]]
        ys == [i \in 1..Len(line) |-> line[i][2]]
    IN  /\ FLe(FMinOf(xs), b[3]) /\ FLe(b[1], FMaxOf(xs))
        /\ FLe(FMinOf(ys), b[4]) /\ FLe(b[2], FMaxOf(ys))

TextOf(t) == [raised |-> FALSE, text |-> t]
Raised == [raised |-> TRUE, text |-> <<>>]

\* affine_transform(geom, xform) for xform = [a, 0, 0, e, c, f]
Transform(line, a, e, c, f) ==
    [i \in 1..Len(line) |-> <<FAdd(FMul(a, line[i][1]), c), FAdd(FMul(e, line[i][2]), f)>>]

RECURSIVE DrawGeometries(_, _, _, _, _, _, _, _)
DrawGeometries(grid, lines, i, a, e, c, f, px) ==
    IF i > Len(lines) THEN grid
    ELSE DrawGeometries(DrawCoords(grid, Transform(lines[i], a, e, c, f), 1, px[1], px[2]),
                        lines, i + 1, a, e, c, f, px)

\* minx, miny, maxx, maxy = viewport.get_bounds(px_w, px_h) in render, for
\* a canvas of width by height cells.
RenderBounds(v, width, height) == GetBoundsOf(v, width * 2, height * 4)

\* A renderer that culls nothing.
Candidates_All(geometries, bounds) == geometries.lines

\* A transform that does not turn the y axis over.
XformOf_Upright(meters_per_px, minx, maxy) ==
    LET a == FDiv(FromInt(1), meters_per_px)
    IN  <<a, a, FMul(FNeg(minx), a), FMul(FNeg(maxy), a)>>

\* The lines render goes on with: for a GeoSeries those the spatial index
\* returns for the viewport rectangle, for a list those that intersect it.
Candidates(geometries, bounds) ==
    LET InBox(line) == Intersects(line, bounds)
        InIndex(line) == ExtentOverlaps(line, bounds)
    IN  IF geometries.series THEN SelectSeq(geometries.lines, InIndex)
        ELSE SelectSeq(geometries.lines, InBox)

\* xform = [a, b, d, e, c, f] with b = d = 0, as <<a, e, c, f>>.
XformOf(meters_per_px, minx, maxy) ==
    LET a == FDiv(FromInt(1), meters_per_px)
        e == FDiv(FromInt(-1), meters_per_px)
    IN  <<a, e, FMul(FNeg(minx), a), FMul(maxy, FNeg(e))>>

Xform(v, bounds) == XformOf(v.meters_per_pixel, bounds[1], bounds[4])

\* The draw loop of render from an empty grid of width by height cells.
DrawAll(lines, xform, width, height) ==
    DrawGeometries(EmptyBrailleGrid(width, height), lines, 1,
                   xform[1], xform[2], xform[3], xform[4], <<width * 2, height * 4>>)

\* The grid at the end of render's draw loop.  survives tells, for a
\* GeoSeries, whether clip and simplify (geopandas) hand the candidate lines
\* on unchanged or hand on empty geometries.
DrawnGridOf(v, geometries, candidates, bounds, width, height, survives) ==
    DrawAll(IF geometries.series /\ ~survives THEN <<>> ELSE candidates,
            Xform(v, bounds), width, height)

DrawnGrid(v, geometries, width, height, survives) ==
    DrawnGridOf(v, geometries,
                Candidates(geometries, RenderBounds(v, width, height)),
                RenderBounds(v, width, height), width, height, survives)

\* BrailleRenderer.render past its test of width and height.  geometries
\* is [loaded, series, lines].
RenderBody(v, geometries, width, height, survives) ==
    IF ~geometries.loaded THEN Raised
    ELSE IF geometries.series
            /\ Candidates(geometries, RenderBounds(v, width, height)) = <<>>
         THEN TextOf(<<>>)
    ELSE IF v.meters_per_pixel.m = 0 THEN Raised
    ELSE TextOf(BrailleGridToStr(DrawnGrid(v, geometries, width, height, survives)))

\* render without the test of width and height.
RenderOf_NoSizeTest(v, geometries, width, height, survives) ==
    RenderBody(v, geometries, width, height, survives)

\* BrailleRenderer.render
RenderOf(v, geometries, width, height, survives) ==
    IF width <= 0 \/ height <= 0 THEN TextOf(<<>>)
    ELSE RenderBody(v, geometries, width, height, survives)

\* MapService.render.  The points _get_visible_points selects are handed to
\* the renderer, which does not draw them.
ServiceRenderOf(v, geometries, width, height, survives) ==
    IF ~geometries.loaded THEN TextOf(<<>>)
    ELSE RenderOf(v, geometries, width, height, survives)

\* Geometry a renderer is handed: four short lines around the origin and
\* far from it, as a list of LineStrings and as a GeoSeries; nothing at all.
NotLoaded == [loaded |-> FALSE, series |-> FALSE, lines |-> <<>>]
FourLines == << <<Pt(-1, -1), Pt(1, 1)>>, <<Pt(-3, 0), Pt(3, 0)>>,
                <<Pt(1, 4), Pt(4, 1)>>, <<Pt(100, 100), Pt(101, 101)>> >>
LineList == [loaded |-> TRUE, series |-> FALSE, lines |-> FourLines]
LineSeries == [loaded |-> TRUE, series |-> TRUE, lines |-> FourLines]
EmptySeries == [loaded |-> TRUE, series |-> TRUE, lines |-> <<>>]
Loadable == {NoLines, LineList, LineSeries, EmptySeries}

\* Viewports a render is tried under (center_x, center_y, halves of
\* meters_per_pixel): scales 1, 2, 1/2 and 0 at the origin, and a viewport
\* away from every line.
RenderViewports == {<<0, 0, 2>>, <<0, 0, 4>>, <<0, 0, 1>>, <<0, 0, 0>>, <<200, 200, 2>>}

\* Canvas sizes in character cells (width, height).
RenderSizes == {<<2, 1>>, <<1, 2>>, <<0, 1>>, <<1, 0>>, <<-1, 3>>}

\* Points added while rendering: (45, -30).
RenderPoints == {<<4500000, -3000000>>}

RCall(op, geometries, width, height, survives, ret) ==
    [op |-> op, width |-> width, height |-> height, viewport |-> Current,
     geometries |-> geometries, survives |-> survives, ret |-> ret]

InitRender ==
    /\ \E v \in RenderViewports :
          /\ center_x = FromInt(v[1])
          /\ center_y = FromInt(v[2])
          /\ meters_per_pixel = Round(v[3], -1)
    /\ projected_geometries = NotLoaded
    /\ timer_pending = TRUE
    /\ calls = <<>>
    /\ points = <<>>
    /\ plast = NoCall
    /\ rlast = NoRender
    /\ braille_grid = <<>>
    /\ glast = NoRaster

\* MapService.load_geometries with a loader that returns g.
LoadGeometries(g) ==
    /\ projected_geometries' = g
    /\ UNCHANGED <<center_x, center_y, meters_per_pixel, timer_pending, calls, pointVars, rlast, rasterVars>>

\* MapService.render(viewport, width, height)
ServiceRender(width, height, survives) ==
    /\ rlast' = RCall("service", projected_geometries, width, height, survives,
                      ServiceRenderOf(Current, projected_geometries, width, height, survives))
    /\ UNCHANGED <<center_x, center_y, meters_per_pixel, projected_geometries,
                   timer_pending, calls, pointVars, rasterVars>>

\* BrailleRenderer.render(viewport, geometries, width, height) called directly.
RendererRender(geometries, width, height, survives) ==
    /\ rlast' = RCall("renderer", geometries, width, height, survives,
                      RenderOf(Current, geometries, width, height, survives))
    /\ UNCHANGED <<center_x, center_y, meters_per_pixel, projected_geometries,
                   timer_pending, calls, pointVars, rasterVars>>

NextRender ==
    \/ \E g \in Loadable : LoadGeometries(g)
    \/ \E c \in RenderPoints : AddPoint(c[1], c[2], 1)
    \/ \E z \in RenderSizes, s \in BOOLEAN : ServiceRender(z[1], z[2], s)
    \/ \E g \in {NotLoaded, LineList, LineSeries}, z \in RenderSizes, s \in BOOLEAN :
          RendererRender(g, z[1], z[2], s)

SpecRender == InitRender /\ [][NextRender]_vars

\* Culling at the edge of the canvas: a line through the viewport and a
\* line just outside its left edge, as a list and as a GeoSeries, under
\* viewports of scale 1 and 2 (center_x, center_y, halves of
\* meters_per_pixel).
EdgeLines == << <<Pt(-1, -1), Pt(1, 1)>>, <<Pt(-5, -1), Pt(-5, 1)>> >>
EdgeList == [loaded |-> TRUE, series |-> FALSE, lines |-> EdgeLines]
EdgeSeries == [loaded |-> TRUE, series |-> TRUE, lines |-> EdgeLines]
CullViewports == {<<0, 0, 2>>, <<0, 0, 4>>, <<1, 0, 4>>, <<-1, 0, 4>>, <<0, 1, 2>>, <<0, 1, 4>>}
CullSizes == {<<2, 1>>, <<1, 2>>, <<2, 2>>}

InitCull ==
    /\ \E v \in CullViewports :
          /\ center_x = FromInt(v[1])
          /\ center_y = FromInt(v[2])
          /\ meters_per_pixel = Round(v[3], -1)
    /\ projected_geometries \in {EdgeList, EdgeSeries}
    /\ timer_pending = FALSE
    /\ calls = <<>>
    /\ points = <<>>
    /\ plast = NoCall
    /\ rlast = NoRender
    /\ braille_grid = <<>>
    /\ glast = NoRaster

NextCull ==
    \/ \E z \in CullSizes, s \in BOOLEAN : ServiceRender(z[1], z[2], s)
    \/ \E g \in {EdgeList, EdgeSeries}, z \in CullSizes, s \in BOOLEAN :
          RendererRender(g, z[1], z[2], s)

SpecCull == InitCull /\ [][NextCull]_vars

\* A loop that tests for the end before it steps and so takes one step
\* past the second end.
RECURSIVE Visits_PastEnd(_, _, _, _)
Visits_PastEnd(x0, y0, err, ln) ==
    LET e2   == 2 * err
        stepx == e2 >= ln.dy
        stepy == e2 <= ln.dx
        nx == IF stepx THEN x0 + ln.sx ELSE x0
        ny == IF stepy THEN y0 + ln.sy ELSE y0
    IN  IF x0 = ln.x1 /\ y0 = ln.y1 THEN << <<x0, y0>>, <<nx, ny>> >>
        ELSE << <<x0, y0>> >> \o
             Visits_PastEnd(nx, ny,
                            err + (IF stepx THEN ln.dy ELSE 0) + (IF stepy THEN ln.dx ELSE 0),
                            ln)

\* The subpixels the loop of _rasterize_line_to_braille visits from
\* (x0, y0) with error term err, in the order it visits them, in the canvas
\* or not.
RECURSIVE Visits(_, _, _, _)
Visits(x0, y0, err, ln) ==
    IF x0 = ln.x1 /\ y0 = ln.y1 THEN << <<x0, y0>> >>
    ELSE LET e2   == 2 * err
             stepx == e2 >= ln.dy
             stepy == e2 <= ln.dx
         IN  << <<x0, y0>> >> \o
             Visits(IF stepx THEN x0 + ln.sx ELSE x0,
                    IF stepy THEN y0 + ln.sy ELSE y0,
                    err + (IF stepx THEN ln.dy ELSE 0) + (IF stepy THEN ln.dx ELSE 0),
                    ln)

\* The subpixels _rasterize_line_to_braille(grid, p0, p1, ...) visits.
VisitsOf(p0, p1) ==
    LET x0 == ToInt(p0[1])
        y0 == ToInt(p0[2])
        x1 == ToInt(p1[1])
        y1 == ToInt(p1[2])
        dx == Abs(x1 - x0)
        dy == -Abs(y1 - y0)
    IN  Visits(x0, y0, dx + dy,
               [x1 |-> x1, y1 |-> y1, dx |-> dx, dy |-> dy,
                sx |-> IF x0 < x1 THEN 1 ELSE -1,
                sy |-> IF y0 < y1 THEN 1 ELSE -1])

\* Size of the canvas the segments are drawn on, in braille cells.
CanvasCols == 3
CanvasRows == 2

\* Its size in subpixels, as render derives it (px_w, px_h).
CanvasWidthPx == CanvasCols * 2
CanvasHeightPx == CanvasRows * 4

\* Segment ends: every integer subpixel of the canvas and of a margin of two
\* around it, and two ends with fractional coordinates, (-0.5, 2.5) and
\* (3.5, 0.75), which int() truncates toward zero.
Endpoints ==
    {Pt(x, y) : x \in (-2)..(CanvasWidthPx + 1), y \in (-2)..(CanvasHeightPx + 1)}
        \cup {<<Round(-1, -1), Round(5, -1)>>, <<Round(7, -1), Round(3, -2)>>}

\* A grid a segment was drawn on before: the diagonal of the canvas.  One
\* segment is drawn per grid explored, on the empty grid or on this one.
Predrawn ==
    RasterizeLine(EmptyBrailleGrid(CanvasCols, CanvasRows), Pt(0, 0),
                  Pt(CanvasWidthPx - 1, CanvasHeightPx - 1), CanvasWidthPx, CanvasHeightPx)

InitRaster ==
    /\ center_x = FZero
    /\ center_y = FZero
    /\ meters_per_pixel = DefaultScale
    /\ projected_geometries = NotLoaded
    /\ timer_pending = FALSE
    /\ calls = <<>>
    /\ points = <<>>
    /\ plast = NoCall
    /\ rlast = NoRender
    /\ braille_grid \in {EmptyBrailleGrid(CanvasCols, CanvasRows), Predrawn}
    /\ glast = NoRaster

\* _rasterize_line_to_braille(grid, p0, p1, px_w, px_h), as draw_lines calls it.
Rasterize(p0, p1) ==
    /\ braille_grid' = RasterizeLine(braille_grid, p0, p1, CanvasWidthPx, CanvasHeightPx)
    /\ glast' = [op |-> "line", p0 |-> p0, p1 |-> p1, pre |-> braille_grid,
                 visits |-> VisitsOf(p0, p1), text |-> <<>>]
    /\ UNCHANGED <<viewVars, pointVars>>

\* _braille_grid_to_str(grid)
Serialize ==
    /\ glast.op # "str"
    /\ glast' = [op |-> "str", p0 |-> <<>>, p1 |-> <<>>, pre |-> braille_grid,
                 visits |-> <<>>, text |-> BrailleGridToStr(braille_grid)]
    /\ UNCHANGED <<braille_grid, viewVars, pointVars>>

NextRaster ==
    \/ glast.op = "none" /\ \E p0 \in Endpoints, p1 \in Endpoints : Rasterize(p0, p1)
    \/ Serialize

SpecRaster == InitRaster /\ [][NextRaster]_vars

\* Frames: MapService.render called again and again on loaded geometry,
\* under viewports of scale 1, 6.5 and 1/2 (center_x, center_y, halves of
\* meters_per_pixel), the viewport reset in between.
FrameViewports == {<<0, 0, 2>>, <<0, 0, 13>>, <<1, -1, 1>>}
FrameSizes == {<<2, 1>>, <<1, 2>>}

\* A call of MapService.render with what BrailleRenderer.render computed on
\* the way: the viewport rectangle, the lines kept, the transform.
Frame(width, height, survives) ==
    [op |-> "render", geometries |-> projected_geometries, survives |-> survives,
     w |-> width, h |-> height, pre |-> Current,
     bounds |-> RenderBounds(Current, width, height),
     kept |-> Candidates(projected_geometries, RenderBounds(Current, width, height)),
     xform |-> IF meters_per_pixel.m = 0 THEN <<>>
               ELSE Xform(Current, RenderBounds(Current, width, height)),
     ret |-> ServiceRenderOf(Current, projected_geometries, width, height, survives)]

InitFrames ==
    /\ \E v \in FrameViewports :
          /\ center_x = FromInt(v[1])
          /\ center_y = FromInt(v[2])
          /\ meters_per_pixel = Round(v[3], -1)
    /\ projected_geometries \in {LineList, LineSeries}
    /\ timer_pending = FALSE
    /\ calls = <<>>
    /\ points = <<>>
    /\ plast = NoCall
    /\ rlast = NoRender
    /\ braille_grid = <<>>
    /\ glast = NoRaster

\* MapService.render(viewport, width, height) with width > 0, height > 0 on
\* loaded geometry; braille_grid is the grid the call built.
RenderFrame(width, height, survives) ==
    /\ Len(calls) < MaxOps
    /\ projected_geometries.loaded /\ width > 0 /\ height > 0
    /\ calls' = Append(calls, Frame(width, height, survives))
    /\ braille_grid' =
          IF ServiceRenderOf(Current, projected_geometries, width, height, survives)
                 \in {Raised, TextOf(<<>>)}
          THEN EmptyBrailleGrid(width, height)
          ELSE DrawnGrid(Current, projected_geometries, width, height, survives)
    /\ UNCHANGED <<center_x, center_y, meters_per_pixel, projected_geometries,
                   timer_pending, pointVars, rlast, glast>>

NextFrames ==
    \/ \E z \in FrameSizes, sv \in BOOLEAN : RenderFrame(z[1], z[2], sv)
    \/ \E v \in FrameViewports : ResetTo(FromInt(v[1]), FromInt(v[2]), Round(v[3], -1))

SpecFrames == InitFrames /\ [][NextFrames]_vars

(***************************************************************************)
(* The point overlay.  MapService.render hands the renderer the stored     *)
(* points that _get_visible_points selects.  MercatorProjection.project    *)
(* is pyproj's EPSG:4326 -> EPSG:3857: x = R * lon and                     *)
(* y = R * ln(tan(pi/4 + lat/2)) with R = 6378137 m and the angles in      *)
(* radians.  For the points used here, within 0.001 degree of the          *)
(* equator, y differs from R * lat by less than one part in 10^10, far     *)
(* below the significand modelled, so both coordinates are the degrees     *)
(* times 111319.49 m: 1.1131949 m for each unit of 0.00001 degree.         *)
(***************************************************************************)
\* Meters for each 0.00001 degree at the equator.
MetersPerUnit == FDiv(FromInt(11131949), FromInt(10000000))

\* MercatorProjection.project, for points within 0.001 degree of (0, 0).
Project(longitude, latitude) ==
    <<FMul(MetersPerUnit, FromInt(longitude)), FMul(MetersPerUnit, FromInt(latitude))>>

\* The test of _get_visible_points on a projected point.
InsideBounds(xy, b) ==
    /\ FLe(b[1], xy[1]) /\ FLe(xy[1], b[3])
    /\ FLe(b[2], xy[2]) /\ FLe(xy[2], b[4])

\* The rectangle _get_visible_points filters by.
VisibleBounds(v, width, height) == GetBoundsOf(v, width * 2, height * 4)

\* MapService._get_visible_points
GetVisiblePointsOf(v, pts, width, height) ==
    LET b == VisibleBounds(v, width, height)
        Visible(point) == InsideBounds(Project(point.longitude, point.latitude), b)
    IN  IF pts = <<>> THEN <<>> ELSE SelectSeq(pts, Visible)

\* Points stored under the overlay, in units of 0.00001 degree: about
\* (1.1, 1.1), (2.2, 1.1) and (-1.1, -3.3) meters.
OverlayPoints == {<<1, 1>>, <<2, 1>>, <<-1, -3>>}

\* Viewports of the overlay (center_x, center_y, halves of
\* meters_per_pixel): scales 1 and 1/2 at the origin, scale 1 at (1, -1).
OverlayViewports == {<<0, 0, 2>>, <<0, 0, 1>>, <<1, -1, 2>>}

VCall(width, height) ==
    [op |-> "visible", width |-> width, height |-> height, viewport |-> Current,
     pre |-> points, bounds |-> VisibleBounds(Current, width, height),
     drawn |-> RenderBounds(Current, width, height),
     ret |-> GetVisiblePointsOf(Current, points, width, height)]

InitOverlay ==
    /\ \E v \in OverlayViewports :
          /\ center_x = FromInt(v[1])
          /\ center_y = FromInt(v[2])
          /\ meters_per_pixel = Round(v[3], -1)
    /\ projected_geometries = LineList
    /\ timer_pending = FALSE
    /\ calls = <<>>
    /\ points = <<>>
    /\ plast = NoCall
    /\ rlast = NoRender
    /\ braille_grid = <<>>
    /\ glast = NoRaster

\* The call of _get_visible_points in MapService.render(viewport, width,
\* height) on loaded geometry.
GetVisiblePoints(width, height) ==
    /\ projected_geometries.loaded
    /\ rlast' = VCall(width, height)
    /\ UNCHANGED <<center_x, center_y, meters_per_pixel, projected_geometries,
                   timer_pending, calls, pointVars, rasterVars>>

NextOverlay ==
    \/ \E c \in OverlayPoints : AddPoint(c[1], c[2], 1)
    \/ \E z \in FrameSizes : GetVisiblePoints(z[1], z[2])

SpecOverlay == InitOverlay /\ [][NextOverlay]_vars

(***************************************************************************)
(* The point store as its callers see it.  get_points returns              *)
(* self._points.copy(), a new list of the same points; the caller may then *)
(* change the list it was handed.  A returned list is held with a flag     *)
(* telling whether it is the stored list itself.                           *)
(***************************************************************************)
\* get_points handing out the stored list itself.
GetPointsOf_SameList(pts) == [list |-> pts, same |-> TRUE]

\* MapService.get_points
GetPointsOf(pts) == [list |-> pts, same |-> FALSE]

\* Points added to the store: (0.00001, 0.00001) and (0.00002, 0.00001),
\* within epsilon of each other.
StorePoints == {<<1, 1>>, <<2, 1>>}

InitStore ==
    /\ center_x = FZero
    /\ center_y = FZero
    /\ meters_per_pixel = FromInt(1)
    /\ projected_geometries = LineList
    /\ timer_pending = FALSE
    /\ calls = <<>>
    /\ points = <<>>
    /\ plast = NoCall
    /\ rlast = NoRender
    /\ braille_grid = <<>>
    /\ glast = NoRaster

\* MapService.get_points()
GetPoints ==
    /\ plast.op # "get"
    /\ plast' = [op |-> "get", longitude |-> 0, latitude |-> 0, data |-> 0,
                 pre |-> points, raised |-> FALSE, ret |-> GetPointsOf(points)]
    /\ UNCHANGED <<points, viewVars, rasterVars>>

\* The caller of get_points changes the list it was handed: list.clear()
\* or list.append(MapPoint(0.0, 0.0, data)).
ModifyReturned(clear, data) ==
    /\ plast.op = "get"
    /\ LET changed == IF clear THEN <<>>
                      ELSE Append(plast.ret.list, MapPoint(0, 0, data))
       IN  /\ plast' = [plast EXCEPT !.op = "modified", !.ret.list = changed]
           /\ points' = IF plast.ret.same THEN changed ELSE points
    /\ UNCHANGED <<viewVars, rasterVars>>

NextStore ==
    \/ \E c \in StorePoints : AddPoint(c[1], c[2], 1)
    \/ ClearPoints
    \/ GetPoints
    \/ \E clear \in BOOLEAN : ModifyReturned(clear, 1)
    \/ GetVisiblePoints(2, 1)

SpecStore == InitStore /\ [][NextStore]_vars

(***************************************************************************)
(* Directional pans.  NavigationService.pan_left .. pan_down take the      *)
(* fraction as their argument; MapWidget.action_pan_left ..                *)
(* action_pan_down, bound to the keys a, d, w and s, use 0.2 and read the  *)
(* size of the widget.  Both end in Viewport.pan.  The size of the         *)
(* display at the time of a call (columns, rows) is recorded with it.      *)
(***************************************************************************)
\* The screen NavigationService assumes, in character cells.
EstimatedCells == 100

\* NavigationService.pan_left(step)
NavPanLeftOf(v, step) ==
    PanOf(v, FMul(FNeg(step), FMul(FromInt(EstimatedCells * 2), v.meters_per_pixel)), FZero)

\* NavigationService.pan_right(step)
NavPanRightOf(v, step) ==
    PanOf(v, FMul(step, FMul(FromInt(EstimatedCells * 2), v.meters_per_pixel)), FZero)

\* pan_up in screen coordinates, y growing downwards.
NavPanUpOf_ScreenY(v, step) ==
    PanOf(v, FZero, FMul(FNeg(step), FMul(FromInt(EstimatedCells * 4), v.meters_per_pixel)))

\* NavigationService.pan_up(step)
NavPanUpOf(v, step) ==
    PanOf(v, FZero, FMul(step, FMul(FromInt(EstimatedCells * 4), v.meters_per_pixel)))

\* NavigationService.pan_down(step)
NavPanDownOf(v, step) ==
    PanOf(v, FZero, FMul(FNeg(step), FMul(FromInt(EstimatedCells * 4), v.meters_per_pixel)))

\* The step of the widget's pans, 0.2.
WidgetStep == FDiv(FromInt(1), FromInt(5))

\* MapWidget.action_pan_left with self.size.width = width
ActionPanLeftOf(v, width) ==
    PanOf(v, FMul(FNeg(WidgetStep), FMul(FromInt(width * 2), v.meters_per_pixel)), FZero)

\* MapWidget.action_pan_right
ActionPanRightOf(v, width) ==
    PanOf(v, FMul(WidgetStep, FMul(FromInt(width * 2), v.meters_per_pixel)), FZero)

\* MapWidget.action_pan_up with self.size.height = height
ActionPanUpOf(v, height) ==
    PanOf(v, FZero, FMul(WidgetStep, FMul(FromInt(height * 4), v.meters_per_pixel)))

\* MapWidget.action_pan_down
ActionPanDownOf(v, height) ==
    PanOf(v, FZero, FMul(FNeg(WidgetStep), FMul(FromInt(height * 4), v.meters_per_pixel)))

\* Length of the navigation sequences explored.
MaxPans == 2

\* Fractions the service is called with: 0.2 (the default) and 0.5.
PanSteps == {FDiv(FromInt(1), FromInt(5)), FDiv(FromInt(1), FromInt(2))}

\* Sizes of the display, in character cells (columns, rows).
DisplaySizes == {<<80, 24>>, <<100, 100>>}

\* Scales the navigation starts from.
NavScales == {1000, 1000000}

\* Centers the navigation starts from (center_x = center_y): the origin,
\* 3, 65536 and 2^30.
NavCenters == {0, 3, 65536, 1073741824}

InitNav ==
    /\ \E c \in NavCenters : center_x = FromInt(c) /\ center_y = FromInt(c)
    /\ \E s \in NavScales : meters_per_pixel = FromInt(s)
    /\ projected_geometries = NoLines
    /\ timer_pending = FALSE
    /\ calls = <<>>
    /\ points = <<>>
    /\ plast = NoCall
    /\ rlast = NoRender
    /\ braille_grid = <<>>
    /\ glast = NoRaster

\* The effect of a call op(step) made while the display is width x height
\* cells and leaving viewport v.
NavCall(op, step, width, height, v) ==
    /\ SetViewport(v)
    /\ calls' = Append(calls, Call(op, step, FZero, FZero, width, height, None))
    /\ UNCHANGED <<projected_geometries, timer_pending, pointVars, rlast, rasterVars>>

NavPanLeft(step, width, height) ==
    /\ Len(calls) < MaxPans
    /\ NavCall("pan_left", step, width, height, NavPanLeftOf(Current, step))

NavPanRight(step, width, height) ==
    /\ Len(calls) < MaxPans
    /\ NavCall("pan_right", step, width, height, NavPanRightOf(Current, step))

NavPanUp(step, width, height) ==
    /\ Len(calls) < MaxPans
    /\ NavCall("pan_up", step, width, height, NavPanUpOf(Current, step))

NavPanDown(step, width, height) ==
    /\ Len(calls) < MaxPans
    /\ NavCall("pan_down", step, width, height, NavPanDownOf(Current, step))

ActionPanLeft(width, height) ==
    /\ Len(calls) < MaxPans
    /\ NavCall("action_pan_left", WidgetStep, width, height, ActionPanLeftOf(Current, width))

ActionPanRight(width, height) ==
    /\ Len(calls) < MaxPans
    /\ NavCall("action_pan_right", WidgetStep, width, height, ActionPanRightOf(Current, width))

ActionPanUp(width, height) ==
    /\ Len(calls) < MaxPans
    /\ NavCall("action_pan_up", WidgetStep, width, height, ActionPanUpOf(Current, height))

ActionPanDown(width, height) ==
    /\ Len(calls) < MaxPans
    /\ NavCall("action_pan_down", WidgetStep, width, height, ActionPanDownOf(Current, height))

\* NavigationService.zoom_in(), factor 0.8
NavZoomIn ==
    /\ Len(calls) < MaxPans
    /\ NavCall("zoom_in", FDiv(FromInt(4), FromInt(5)), 0, 0,
               ZoomOf(Current, FDiv(FromInt(4), FromInt(5))))

\* NavigationService.zoom_out(), factor 1.25
NavZoomOut ==
    /\ Len(calls) < MaxPans
    /\ NavCall("zoom_out", FDiv(FromInt(5), FromInt(4)), 0, 0,
               ZoomOf(Current, FDiv(FromInt(5), FromInt(4))))

NextNav ==
    \/ \E s \in PanSteps, z \in DisplaySizes : NavPanLeft(s, z[1], z[2])
    \/ \E s \in PanSteps, z \in DisplaySizes : NavPanRight(s, z[1], z[2])
    \/ \E s \in PanSteps, z \in DisplaySizes : NavPanUp(s, z[1], z[2])
    \/ \E s \in PanSteps, z \in DisplaySizes : NavPanDown(s, z[1], z[2])
    \/ \E z \in DisplaySizes : ActionPanLeft(z[1], z[2])
    \/ \E z \in DisplaySizes : ActionPanRight(z[1], z[2])
    \/ \E z \in DisplaySizes : ActionPanUp(z[1], z[2])
    \/ \E z \in DisplaySizes : ActionPanDown(z[1], z[2])
    \/ NavZoomIn
    \/ NavZoomOut

SpecNav == InitNav /\ [][NextNav]_vars

(***************************************************************************)
(* Reading the call history.                                               *)
(***************************************************************************)
\* The viewport right after call i.
Post(i) == IF i = Len(calls) THEN Current ELSE calls[i + 1].pre

Calls(op) == {i \in 1..Len(calls) : calls[i].op = op}

\* a + b and a * b need no rounding: the exact result is a float.
AddIsExact(a, b) ==
    \/ a.m = 0
    \/ b.m = 0
    \/ /\ Top(a) - Top(b) <= Precision + 1
       /\ Top(b) - Top(a) <= Precision + 1
       /\ LET e == IF a.e < b.e THEN a.e ELSE b.e
              n == a.m * (2 ^ (a.e - e)) + b.m * (2 ^ (b.e - e))
          IN  BitLen(Abs(Norm(n, e).m)) <= Precision

MulIsExact(a, b) == BitLen(Abs(Norm(a.m * b.m, 0).m)) <= Precision

(***************************************************************************)
(* C1.  zoom(factor) with factor <= 0 is rejected: the scale after the     *)
(* call equals the scale before it.                                        *)
(***************************************************************************)
C1_ZoomRejectsNonPositive ==
    \A i \in Calls("zoom") :
        calls[i].a.m <= 0 => Post(i).meters_per_pixel = calls[i].pre.meters_per_pixel

(***************************************************************************)
(* C2.  The scale stays strictly positive in every reachable state.        *)
(***************************************************************************)
C2_ScalePositive == meters_per_pixel.m > 0

(***************************************************************************)
(* C3.  get_bounds(width_px, height_px), width_px > 0, height_px > 0,      *)
(* returns a rectangle whose midpoint is the center and whose extent is    *)
(* width_px * scale by height_px * scale, and leaves the viewport alone.   *)
(* As claimed: for every viewport.                                         *)
(***************************************************************************)
BoundsCentered(v, w, h, r) ==
    /\ FDiv(FAdd(r[1], r[3]), FromInt(2)) = v.center_x
    /\ FDiv(FAdd(r[2], r[4]), FromInt(2)) = v.center_y
    /\ FSub(r[3], r[1]) = FMul(FromInt(w), v.meters_per_pixel)
    /\ FSub(r[4], r[2]) = FMul(FromInt(h), v.meters_per_pixel)

C3_BoundsCenteredAlways ==
    \A i \in Calls("get_bounds") :
        (calls[i].w > 0 /\ calls[i].h > 0)
            => BoundsCentered(calls[i].pre, calls[i].w, calls[i].h, calls[i].ret)

\* No operation of get_bounds rounds: the products width_px * scale and
\* height_px * scale and the four sums center +- half extent are floats.
BoundsExact(v, w, h) ==
    LET hw == FDiv(FMul(FromInt(w), v.meters_per_pixel), FromInt(2))
        hh == FDiv(FMul(FromInt(h), v.meters_per_pixel), FromInt(2))
    IN  /\ MulIsExact(FromInt(w), v.meters_per_pixel)
        /\ MulIsExact(FromInt(h), v.meters_per_pixel)
        /\ AddIsExact(v.center_x, hw) /\ AddIsExact(v.center_x, FNeg(hw))
        /\ AddIsExact(v.center_y, hh) /\ AddIsExact(v.center_y, FNeg(hh))

(***************************************************************************)
(* C3, amended.  When no operation of get_bounds rounds, the rectangle is  *)
(* centered on the center with extent width_px * scale by height_px *      *)
(* scale; Viewport(0, 0, 1_000_000).get_bounds(200, 100) is                *)
(* (-100000000, -50000000, 100000000, 50000000); get_bounds never changes  *)
(* the viewport.                                                           *)
(***************************************************************************)
C3_BoundsCenteredWhenExact ==
    \A i \in Calls("get_bounds") :
        LET c == calls[i]
        IN  /\ Post(i) = c.pre
            /\ (c.w > 0 /\ c.h > 0 /\ BoundsExact(c.pre, c.w, c.h))
                   => BoundsCentered(c.pre, c.w, c.h, c.ret)
            /\ (c.pre = Viewport(FZero, FZero, FromInt(1000000)) /\ c.w = 200 /\ c.h = 100)
                   => c.ret = <<FromInt(-100000000), FromInt(-50000000),
                                FromInt(100000000), FromInt(50000000)>>

C3_Witness ==
    \E i \in Calls("get_bounds") :
        /\ calls[i].pre = Viewport(FromInt(50), FromInt(75), FromInt(2000))
        /\ calls[i].w = 1 /\ calls[i].h = 1
        /\ BoundsExact(calls[i].pre, 1, 1)
        /\ calls[i].ret = <<FromInt(-950), FromInt(-925), FromInt(1050), FromInt(1075)>>

(***************************************************************************)
(* C8.  reset() sets center (0, 0) and scale 1,000,000; reset(cx, cy, s)   *)
(* sets exactly (cx, cy) and s; NavigationService.reset() ends in the      *)
(* state of Viewport.reset() with its defaults.  From any state.           *)
(***************************************************************************)
C8_Reset ==
    /\ \A i \in Calls("reset") \cup Calls("nav_reset") :
           Post(i) = Viewport(FZero, FZero, FromInt(1000000))
    /\ \A i \in Calls("reset_to") :
           Post(i) = Viewport(calls[i].a, calls[i].b, calls[i].c)

C8_Witness ==
    /\ Len(calls) = 3
    /\ calls[1].op = "pan" /\ calls[2].op = "zoom"
    /\ calls[3].op \in {"reset", "nav_reset"}
    /\ calls[3].pre.center_x # FZero
    /\ calls[3].pre.meters_per_pixel # FromInt(1000000)
    /\ Current = Viewport(FZero, FZero, FromInt(1000000))

(***************************************************************************)
(* C9.  pan(dx, dy) sets the center to (center_x + dx, center_y + dy), the *)
(* float sums, unclamped, and leaves the scale; zoom leaves the center.    *)
(***************************************************************************)
C9_PanZoomFrame ==
    /\ \A i \in Calls("pan") :
           /\ Post(i).center_x = FAdd(calls[i].pre.center_x, calls[i].a)
           /\ Post(i).center_y = FAdd(calls[i].pre.center_y, calls[i].b)
           /\ Post(i).meters_per_pixel = calls[i].pre.meters_per_pixel
    /\ \A i \in Calls("zoom") :
           /\ Post(i).center_x = calls[i].pre.center_x
           /\ Post(i).center_y = calls[i].pre.center_y

C9_Witness ==
    /\ \E i \in Calls("pan") :
           /\ calls[i].pre.center_x = FromInt(16384)
           /\ calls[i].a = FromInt(16384)
           /\ Post(i).center_x = FromInt(32768)
    /\ \E i \in Calls("zoom") :
           /\ calls[i].pre.center_x # FZero
           /\ Post(i).meters_per_pixel # calls[i].pre.meters_per_pixel

(***************************************************************************)
(* C10.  pan(dx, dy) then pan(-dx, -dy) restores center_x and center_y,    *)
(* with the scale as before.  As claimed: for every viewport and delta.    *)
(***************************************************************************)
PanThenBack(i) ==
    /\ i + 1 <= Len(calls)
    /\ calls[i].op = "pan" /\ calls[i + 1].op = "pan"
    /\ calls[i + 1].a = FNeg(calls[i].a)
    /\ calls[i + 1].b = FNeg(calls[i].b)

C10_PanBackRestoresAlways ==
    \A i \in 1..Len(calls) : PanThenBack(i) => Post(i + 1) = calls[i].pre

(***************************************************************************)
(* C10, amended.  pan(dx, dy) then pan(-dx, -dy) leaves the scale as it    *)
(* was, and restores center_x and center_y whenever center_x + dx and      *)
(* center_y + dy are floats (the first pan does not round).                *)
(***************************************************************************)
C10_PanBackRestoresWhenExact ==
    \A i \in 1..Len(calls) :
        PanThenBack(i) =>
            /\ Post(i + 1).meters_per_pixel = calls[i].pre.meters_per_pixel
            /\ AddIsExact(calls[i].pre.center_x, calls[i].a)
                   => Post(i + 1).center_x = calls[i].pre.center_x
            /\ AddIsExact(calls[i].pre.center_y, calls[i].b)
                   => Post(i + 1).center_y = calls[i].pre.center_y

C10_Witness ==
    \E i \in 1..Len(calls) :
        /\ PanThenBack(i)
        /\ calls[i].pre.center_x = FromInt(50)
        /\ calls[i].a = FromInt(100)
        /\ Post(i).center_x = FromInt(150)
        /\ Post(i + 1).center_x = FromInt(50)

(***************************************************************************)
(* C6.  MapPoint(longitude, latitude) is constructed exactly when          *)
(* -180 <= longitude <= 180 and -90 <= latitude <= 90 and fails otherwise; *)
(* a constructed point keeps the coordinates it was given (no clamping),   *)
(* so every stored point is in range.                                      *)
(***************************************************************************)
InRange(longitude, latitude) ==
    /\ longitude >= -18000000 /\ longitude <= 18000000
    /\ latitude >= -9000000 /\ latitude <= 9000000

C6_MapPointValidated ==
    /\ plast.op \in {"make", "add", "update"}
           => (plast.raised <=> ~InRange(plast.longitude, plast.latitude))
    /\ plast.raised => points = plast.pre
    /\ (plast.op = "add" /\ ~plast.raised)
           => points = Append(plast.pre,
                              MapPoint(plast.longitude, plast.latitude, plast.data))
    /\ \A i \in 1..Len(points) : InRange(points[i].longitude, points[i].latitude)

C6_Witness ==
    /\ \E i \in 1..Len(points) :
           points[i].longitude = 18000000 /\ points[i].latitude = 9000000
    /\ plast.op = "make" /\ plast.longitude = 18000001 /\ plast.raised

(***************************************************************************)
(* C7.  update_map_data(u): if a stored point is within 0.0001 of u in     *)
(* longitude and in latitude, the list keeps its length, one such entry    *)
(* keeps its position and gets u's data, and every other entry is          *)
(* unchanged; otherwise u's point is appended and every stored entry is    *)
(* unchanged.                                                              *)
(***************************************************************************)
Within(p, longitude, latitude) ==
    /\ p.longitude - longitude < 10 /\ longitude - p.longitude < 10
    /\ p.latitude - latitude < 10 /\ latitude - p.latitude < 10

C7_UpdateInPlaceOrAppend ==
    (plast.op = "update" /\ ~plast.raised) =>
        LET pre  == plast.pre
            hits == {i \in 1..Len(pre) : Within(pre[i], plast.longitude, plast.latitude)}
        IN  IF hits # {}
            THEN /\ Len(points) = Len(pre)
                 /\ \E i \in hits :
                        /\ points[i].data = plast.data
                        /\ \A j \in 1..Len(pre) : j # i => points[j] = pre[j]
            ELSE /\ Len(points) = Len(pre) + 1
                 /\ points[Len(points)] =
                        MapPoint(plast.longitude, plast.latitude, plast.data)
                 /\ \A j \in 1..Len(pre) : points[j] = pre[j]

\* (45, -30) with data 1 is stored second; the update (45.00005, -30.00003)
\* with data 2 replaces it where it is.
C7_Witness ==
    /\ plast.op = "update" /\ ~plast.raised
    /\ plast.longitude = 4500005 /\ plast.latitude = -3000003 /\ plast.data = 2
    /\ Len(plast.pre) = 2
    /\ plast.pre[2] = MapPoint(4500000, -3000000, 1)
    /\ Len(points) = 2
    /\ points[2] = MapPoint(4500005, -3000003, 2)
    /\ points[1] = plast.pre[1]
\* C4: render called with a width or a height that is not positive returns
\* the empty string, whatever the viewport and the geometry, and does not
\* raise; through MapService.render as well as on the renderer itself.
C4_EmptyForNonPositiveSize ==
    (rlast.op # "none" /\ (rlast.width <= 0 \/ rlast.height <= 0))
        => rlast.ret = TextOf(<<>>)

\* A loaded GeoSeries and a stored point, a viewport with lines inside it,
\* and MapService.render called with width 0 returned the empty string.
C4_Witness ==
    /\ rlast.op = "service"
    /\ rlast.width = 0 /\ rlast.height = 1
    /\ rlast.geometries = LineSeries
    /\ rlast.viewport = Viewport(FZero, FZero, FromInt(1))
    /\ points # <<>>
    /\ rlast.ret = TextOf(<<>>)

\* C5: MapService.render returns the empty string before any geometry is
\* loaded and, once geometry is loaded and the size is positive, returns a
\* string that is not empty (read here on viewports of positive scale only).
C5_EmptyOnlyBeforeLoad ==
    rlast.op = "service" =>
        /\ ~rlast.geometries.loaded => rlast.ret = TextOf(<<>>)
        /\ (rlast.geometries.loaded /\ rlast.width > 0 /\ rlast.height > 0
               /\ FLt(FZero, rlast.viewport.meters_per_pixel))
              => (~rlast.ret.raised /\ rlast.ret.text # <<>>)

(***************************************************************************)
(* C11.  zoom(f1) then zoom(f2), f1 > 0 and f2 > 0, ends at the scale of a *)
(* single zoom(f1 * f2) from the same viewport.  As claimed: for every     *)
(* viewport and every pair of positive factors.                            *)
(***************************************************************************)
ZoomThenZoom(i) ==
    /\ i + 1 <= Len(calls)
    /\ calls[i].op = "zoom" /\ calls[i + 1].op = "zoom"
    /\ FLt(FZero, calls[i].a) /\ FLt(FZero, calls[i + 1].a)

C11_ZoomComposesAlways ==
    \A i \in 1..Len(calls) :
        ZoomThenZoom(i) =>
            Post(i + 1).meters_per_pixel
                = ZoomOf(calls[i].pre, FMul(calls[i].a, calls[i + 1].a)).meters_per_pixel

\* None of scale * f1, (scale * f1) * f2, f1 * f2, scale * (f1 * f2) rounds.
ZoomsExact(v, f1, f2) ==
    /\ MulIsExact(v.meters_per_pixel, f1)
    /\ MulIsExact(FMul(v.meters_per_pixel, f1), f2)
    /\ MulIsExact(f1, f2)
    /\ MulIsExact(v.meters_per_pixel, FMul(f1, f2))

(***************************************************************************)
(* C11, amended.  zoom(f1) then zoom(f2), f1 > 0 and f2 > 0, ends at the   *)
(* scale of a single zoom(f1 * f2) whenever none of the float products     *)
(* involved rounds; scale 1000 after zoom(0.5) is 500 and after a further  *)
(* zoom(2.0) is 1000.                                                      *)
(***************************************************************************)
C11_ZoomComposesWhenExact ==
    \A i \in 1..Len(calls) :
        ZoomThenZoom(i) =>
            /\ ZoomsExact(calls[i].pre, calls[i].a, calls[i + 1].a)
                   => Post(i + 1).meters_per_pixel
                          = ZoomOf(calls[i].pre,
                                   FMul(calls[i].a, calls[i + 1].a)).meters_per_pixel
            /\ (calls[i].pre.meters_per_pixel = FromInt(1000)
                    /\ calls[i].a = FDiv(FromInt(1), FromInt(2))
                    /\ calls[i + 1].a = FromInt(2))
                   => /\ Post(i).meters_per_pixel = FromInt(500)
                      /\ Post(i + 1).meters_per_pixel = FromInt(1000)

C11_Witness ==
    \E i \in 1..Len(calls) :
        /\ ZoomThenZoom(i)
        /\ calls[i].pre.meters_per_pixel = FromInt(1000)
        /\ calls[i].a = FDiv(FromInt(1), FromInt(2))
        /\ calls[i + 1].a = FromInt(2)
        /\ ZoomsExact(calls[i].pre, calls[i].a, calls[i + 1].a)
        /\ Post(i + 1).meters_per_pixel = FromInt(1000)

(***************************************************************************)
(* Reading the last call on the grid.                                      *)
(***************************************************************************)
\* The ends of the last segment as the rasterizer takes them, int(p).
X0 == ToInt(glast.p0[1])
Y0 == ToInt(glast.p0[2])
X1 == ToInt(glast.p1[1])
Y1 == ToInt(glast.p1[2])

InCanvas(q) ==
    /\ 0 <= q[1] /\ q[1] < CanvasWidthPx
    /\ 0 <= q[2] /\ q[2] < CanvasHeightPx

IsInteger(a) == a.e >= 0

Larger(a, b) == IF a < b THEN b ELSE a

\* The standard 8-dot braille table: dots 1, 2, 3, 7 in the left column
\* and 4, 5, 6, 8 in the right one, dot k worth 2^(k - 1).
StandardDot(sx, sy) ==
    (<< <<1, 2, 4, 64>>, <<8, 16, 32, 128>> >>)[sx + 1][sy + 1]

DotValues == {1, 2, 4, 8, 16, 32, 64, 128}

BitsOf(mask) == {b \in DotValues : (mask \div b) % 2 = 1}

RECURSIVE SumOf(_)
SumOf(S) == IF S = {} THEN 0 ELSE LET b == CHOOSE x \in S : TRUE IN b + SumOf(S \ {b})

\* The grid pre with the dot of every subpixel of qs that lies in the canvas
\* set in its cell (column x // 2, row y // 4), and nothing else changed.
WithDots(pre, qs) ==
    [r \in 1..Len(pre) |->
        [c \in 1..Len(pre[r]) |->
            SumOf(BitsOf(pre[r][c]) \cup
                  {StandardDot(qs[i][1] % 2, qs[i][2] % 4) :
                      i \in {k \in 1..Len(qs) :
                                /\ InCanvas(qs[k])
                                /\ qs[k][1] \div 2 = c - 1
                                /\ qs[k][2] \div 4 = r - 1}})]]

\* q is a subpixel nearest to the ideal line from (X0, Y0) to (X1, Y1): off
\* it by at most half a subpixel along the minor axis.
OnIdealLine(q) ==
    2 * Abs((X1 - X0) * (q[2] - Y0) - (Y1 - Y0) * (q[1] - X0))
        <= Larger(Abs(X1 - X0), Abs(Y1 - Y0))

(***************************************************************************)
(* C12.  A segment with integer ends inside the canvas sets exactly the    *)
(* dots of its Bresenham path: the path runs from the first end to the     *)
(* second through subpixels nearest the ideal line, each 8-adjacent to the *)
(* one before, none visited twice, max(|dx|, |dy|) + 1 of them, and the    *)
(* grid afterwards is the grid before with exactly their dots added.       *)
(***************************************************************************)
C12_BresenhamPath ==
    (/\ glast.op = "line"
     /\ IsInteger(glast.p0[1]) /\ IsInteger(glast.p0[2])
     /\ IsInteger(glast.p1[1]) /\ IsInteger(glast.p1[2])
     /\ InCanvas(<<X0, Y0>>) /\ InCanvas(<<X1, Y1>>))
    => LET v == glast.visits
       IN  /\ Len(v) = Larger(Abs(X1 - X0), Abs(Y1 - Y0)) + 1
           /\ v[1] = <<X0, Y0>>
           /\ v[Len(v)] = <<X1, Y1>>
           /\ \A i \in 1..(Len(v) - 1) :
                 Larger(Abs(v[i + 1][1] - v[i][1]), Abs(v[i + 1][2] - v[i][2])) = 1
           /\ \A i \in 1..Len(v) : \A j \in 1..Len(v) : v[i] = v[j] => i = j
           /\ \A i \in 1..Len(v) : InCanvas(v[i]) /\ OnIdealLine(v[i])
           /\ braille_grid = WithDots(glast.pre, v)

\* A steep segment down and to the left across the canvas, drawn over the
\* diagonal drawn before.
C12_Witness ==
    /\ glast.op = "line"
    /\ glast.p0 = Pt(CanvasWidthPx - 1, 0)
    /\ glast.p1 = Pt(1, CanvasHeightPx - 1)
    /\ glast.pre = Predrawn
    /\ Len(glast.visits) = CanvasHeightPx
    /\ braille_grid # glast.pre
    /\ braille_grid = WithDots(glast.pre, glast.visits)

(***************************************************************************)
(* C13.  For every segment, in the canvas or not: a visited subpixel       *)
(* outside the canvas sets no bit and does not end the traversal, which    *)
(* runs from the first end to the second in max(|dx|, |dy|) + 1 steps;     *)
(* every subpixel of the path that is in the canvas is set; each end is    *)
(* visited exactly once.                                                   *)
(***************************************************************************)
C13_OutsideSkipped ==
    glast.op = "line"
    => LET v == glast.visits
           inside == {i \in 1..Len(v) : InCanvas(v[i])}
       IN  /\ Len(v) = Larger(Abs(X1 - X0), Abs(Y1 - Y0)) + 1
           /\ v[1] = <<X0, Y0>>
           /\ v[Len(v)] = <<X1, Y1>>
           /\ Cardinality({i \in 1..Len(v) : v[i] = <<X0, Y0>>}) = 1
           /\ Cardinality({i \in 1..Len(v) : v[i] = <<X1, Y1>>}) = 1
           /\ \A i \in inside :
                 DotBit(v[i][1] % 2, v[i][2] % 4)
                     \in BitsOf(braille_grid[(v[i][2] \div 4) + 1][(v[i][1] \div 2) + 1])
           /\ inside = {} => braille_grid = glast.pre
           /\ braille_grid = WithDots(glast.pre, SelectSeq(v, InCanvas))

\* A segment that starts and ends outside the canvas and crosses it.
C13_Witness ==
    /\ glast.op = "line"
    /\ glast.p0 = Pt(-2, -2)
    /\ glast.p1 = Pt(CanvasWidthPx + 1, CanvasHeightPx - 2)
    /\ glast.pre = EmptyBrailleGrid(CanvasCols, CanvasRows)
    /\ \E i \in 1..Len(glast.visits) : InCanvas(glast.visits[i])
    /\ ~InCanvas(glast.visits[1])
    /\ ~InCanvas(glast.visits[Len(glast.visits)])
    /\ braille_grid # glast.pre

(***************************************************************************)
(* C14.  Every visited subpixel (x, y) in the canvas sets, in the cell of  *)
(* column x // 2 and row y // 4, the bit of the standard table for         *)
(* (x mod 2, y mod 4); the eight table values are distinct single bits     *)
(* that together make 255; bits set before are kept, and no bit is set     *)
(* that no visited subpixel accounts for, in that cell or any other.       *)
(***************************************************************************)
VisitedDots(v, r, c) ==
    {StandardDot(v[i][1] % 2, v[i][2] % 4) :
        i \in {k \in 1..Len(v) : /\ InCanvas(v[k])
                                 /\ v[k][1] \div 2 = c - 1
                                 /\ v[k][2] \div 4 = r - 1}}

C14_DotTable ==
    /\ \A sx \in 0..1 : \A sy \in 0..3 : DotBit(sx, sy) = StandardDot(sx, sy)
    /\ LET table == {DotBit(sx, sy) : sx \in 0..1, sy \in 0..3}
       IN  /\ Cardinality(table) = 8
           /\ \A b \in table : \E k \in 0..7 : b = 2 ^ k
           /\ SumOf(table) = 255
    /\ glast.op = "line"
       => /\ Len(braille_grid) = Len(glast.pre)
          /\ \A r \in 1..Len(braille_grid) :
                /\ Len(braille_grid[r]) = Len(glast.pre[r])
                /\ \A c \in 1..Len(braille_grid[r]) :
                      BitsOf(braille_grid[r][c])
                          = BitsOf(glast.pre[r][c]) \cup VisitedDots(glast.visits, r, c)

\* A cell that held dots before the segment keeps them and gains dot 8
\* (bit 128, subpixel (1, 3) of the cell).
C14_Witness ==
    /\ glast.op = "line"
    /\ \E r \in 1..Len(braille_grid) : \E c \in 1..Len(braille_grid[r]) :
          /\ glast.pre[r][c] # 0
          /\ 128 \notin BitsOf(glast.pre[r][c])
          /\ 128 \in BitsOf(braille_grid[r][c])
          /\ BitsOf(glast.pre[r][c]) \subseteq BitsOf(braille_grid[r][c])
    /\ \E r \in 1..Len(braille_grid) : \E c \in 1..Len(braille_grid[r]) :
          glast.pre[r][c] # 0 /\ braille_grid[r][c] = glast.pre[r][c]

(***************************************************************************)
(* C15.  The text of a grid is row-major: one character per cell, the code *)
(* point 0x2800 + mask for a mask that is not zero and a space for zero,   *)
(* the rows joined by single newlines with none after the last row;        *)
(* distinct non-zero masks give distinct characters.                       *)
(***************************************************************************)
C15_Serialization ==
    /\ \A m \in 1..255 : CellChar(m) = 10240 + m
    /\ Cardinality({CellChar(m) : m \in 1..255}) = 255
    /\ CellChar(0) = 32
    /\ glast.op = "str"
       => LET g == glast.pre
              rows == Len(g)
              cols == Len(g[1])
              t == glast.text
          IN  /\ braille_grid = g
              /\ Len(t) = rows * cols + (rows - 1)
              /\ \A r \in 1..rows : \A c \in 1..cols :
                    t[(r - 1) * (cols + 1) + c]
                        = IF g[r][c] # 0 THEN 10240 + g[r][c] ELSE 32
              /\ \A r \in 1..(rows - 1) : t[r * (cols + 1)] = 10
              /\ t[Len(t)] # 10

\* A grid of two rows with blank and dotted cells, serialized.
C15_Witness ==
    /\ glast.op = "str"
    /\ Len(glast.pre) = CanvasRows
    /\ \E c \in 1..CanvasCols : glast.pre[1][c] = 0
    /\ \E c \in 1..CanvasCols : glast.pre[1][c] # 0
    /\ \E c \in 1..CanvasCols : glast.pre[CanvasRows][c] # 0
    /\ glast.text[1] = 10240 + glast.pre[1][1]
    /\ Len(glast.text) = CanvasRows * CanvasCols + CanvasRows - 1
    /\ glast.text[CanvasCols + 1] = Newline

(***************************************************************************)
(* C16.  Two render calls with equal viewport, geometry, width and height  *)
(* (and the same outcome of the geometry library's clip on them) return    *)
(* equal text, whatever was rendered before; a call that draws no line     *)
(* returns a blank picture, whatever was drawn before; render changes      *)
(* neither the viewport, the geometry nor the points.                      *)
(***************************************************************************)
Blank(text) == \A k \in 1..Len(text) : text[k] \in {Space, Newline}

FramesAgree ==
    \A i \in Calls("render") : \A j \in Calls("render") :
        LET a == calls[i]
            b == calls[j]
        IN  /\ (a.pre = b.pre /\ a.geometries = b.geometries /\ a.w = b.w /\ a.h = b.h
                  /\ a.survives = b.survives)
                    => a.ret = b.ret
            /\ (a.geometries.series /\ ~a.survives /\ ~a.ret.raised) => Blank(a.ret.text)
            /\ Post(i) = a.pre

RenderLeavesState ==
    (Len(calls') = Len(calls) + 1 /\ calls'[Len(calls')].op = "render")
        => UNCHANGED <<center_x, center_y, meters_per_pixel, projected_geometries, points>>

C16_RenderDeterministic == []FramesAgree /\ [][RenderLeavesState]_vars

\* The same frame rendered twice with a frame of another size in between,
\* and twice with a drawn frame of the same size before the second.
C16_Witness ==
    /\ Len(calls) = 3
    /\ calls[1].op = "render" /\ calls[2].op = "render" /\ calls[3].op = "render"
    /\ calls[1].w = calls[3].w /\ calls[1].h = calls[3].h
    /\ calls[1].survives = calls[3].survives /\ calls[1].pre = calls[3].pre
    /\ calls[2].w = calls[1].w /\ calls[2].h = calls[1].h
    /\ calls[2].ret # calls[1].ret
    /\ ~Blank(calls[2].ret.text)
    /\ calls[3].ret = calls[1].ret

(***************************************************************************)
(* C17.  The map of render from projected coordinates to subpixels is      *)
(* px = (x - minx) / scale, py = (maxy - y) / scale with (minx, maxy) from *)
(* get_bounds(2 * width, 4 * height): the top-left corner maps to (0, 0),  *)
(* the center to subpixel (width, 2 * height), px grows with x and py      *)
(* falls as y grows.  As claimed: for every frame.                         *)
(***************************************************************************)
\* affine_transform applied to the point (x, y) with the transform of frame fr.
MapOf(fr, x, y) ==
    Transform(<< <<x, y>> >>, fr.xform[1], fr.xform[2], fr.xform[3], fr.xform[4])[1]

Samples == {FromInt(-3), FromInt(0), FromInt(2)}

Subpixel(q) == <<ToInt(q[1]), ToInt(q[2])>>

CornerAtOrigin(fr) == MapOf(fr, fr.bounds[1], fr.bounds[4]) = <<FZero, FZero>>

CenterAtMiddle(fr) ==
    Subpixel(MapOf(fr, fr.pre.center_x, fr.pre.center_y)) = <<fr.w, 2 * fr.h>>

QuotientForm(fr) ==
    \A x \in Samples : \A y \in Samples :
        MapOf(fr, x, y) = <<FDiv(FSub(x, fr.bounds[1]), fr.pre.meters_per_pixel),
                            FDiv(FSub(fr.bounds[4], y), fr.pre.meters_per_pixel)>>

Oriented(fr) ==
    \A x1 \in Samples : \A x2 \in Samples :
        FLt(x1, x2) => /\ FLe(MapOf(fr, x1, x1)[1], MapOf(fr, x2, x2)[1])
                       /\ FLe(MapOf(fr, x2, x2)[2], MapOf(fr, x1, x1)[2])
                       /\ MapOf(fr, x1, x1) # MapOf(fr, x2, x2)

ScaleIsPowerOfTwo(fr) == fr.pre.meters_per_pixel.m = 1

ExtentMeets(line, b) ==
    /\ \E k \in 1..Len(line) : FLe(line[k][1], b[3])
    /\ \E k \in 1..Len(line) : FLe(b[1], line[k][1])
    /\ \E k \in 1..Len(line) : FLe(line[k][2], b[4])
    /\ \E k \in 1..Len(line) : FLe(b[2], line[k][2])

Range(seq) == {seq[k] : k \in 1..Len(seq)}

KeptByExtent(fr) ==
    LET Meets(line) == ExtentMeets(line, fr.bounds)
    IN  fr.kept = SelectSeq(fr.geometries.lines, Meets)

StrictlyLarger(big, small) ==
    /\ FLt(big[1], small[1]) /\ FLt(big[2], small[2])
    /\ FLt(small[3], big[3]) /\ FLt(small[4], big[4])

\* The stored points of a call whose projection lies in rectangle b.
PointsInside(pts, b) ==
    LET Inside(point) == InsideBounds(Project(point.longitude, point.latitude), b)
    IN  SelectSeq(pts, Inside)

\* C19: the point overlay filter retains exactly the stored points whose
\* projected position lies inside a rectangle centered on the viewport
\* center that is strictly larger, in both axes, than the rectangle the
\* rasterizer draws for the same width and height.
C19_FilterEnlarged ==
    rlast.op = "visible" =>
        /\ rlast.ret = PointsInside(rlast.pre, rlast.bounds)
        /\ StrictlyLarger(rlast.bounds, rlast.drawn)

\* What the filter does: it retains exactly the points inside the
\* rectangle the rasterizer draws, so a point beyond the edge of the canvas
\* is dropped however near it is.
C19_FilterIsCanvas ==
    rlast.op = "visible" =>
        /\ rlast.bounds = rlast.drawn
        /\ rlast.ret = PointsInside(rlast.pre, rlast.drawn)

\* A call that dropped a stored point lying within one canvas of the edge
\* (inside the rectangle of twice the width and height) and kept another.
C19_PointAtEdgeDropped ==
    /\ rlast.op = "visible"
    /\ rlast.ret # <<>>
    /\ \E i \in 1..Len(rlast.pre) :
          /\ InsideBounds(Project(rlast.pre[i].longitude, rlast.pre[i].latitude),
                          GetBoundsOf(rlast.viewport, rlast.width * 4, rlast.height * 8))
          /\ ~InsideBounds(Project(rlast.pre[i].longitude, rlast.pre[i].latitude),
                           rlast.drawn)
          /\ \A j \in 1..Len(rlast.ret) : rlast.ret[j] # rlast.pre[i]

(***************************************************************************)
(* C20.  Directional pans.                                                 *)
(***************************************************************************)
ServicePans == {"pan_left", "pan_right", "pan_up", "pan_down"}
WidgetPans == {"action_pan_left", "action_pan_right", "action_pan_up", "action_pan_down"}

\* The viewport moved from v by fraction of a span of cells_x columns and
\* cells_y rows in the direction of op, the products rounded as the code
\* rounds them.
MovedBy(v, op, fraction, cells_x, cells_y) ==
    LET span_x == FMul(FromInt(cells_x * 2), v.meters_per_pixel)
        span_y == FMul(FromInt(cells_y * 4), v.meters_per_pixel)
    IN  CASE op \in {"pan_left", "action_pan_left"} ->
                 PanOf(v, FMul(FNeg(fraction), span_x), FZero)
          [] op \in {"pan_right", "action_pan_right"} ->
                 PanOf(v, FMul(fraction, span_x), FZero)
          [] op \in {"pan_up", "action_pan_up"} ->
                 PanOf(v, FZero, FMul(fraction, span_y))
          [] op \in {"pan_down", "action_pan_down"} ->
                 PanOf(v, FZero, FMul(FNeg(fraction), span_y))

\* C20: a directional pan by fraction moves the center by fraction times
\* the visible span in that axis, the display size in subpixels at the time
\* of the call times the scale at the time of the call, and leaves the
\* other coordinate and the scale alone.
C20_PanByVisibleSpan ==
    \A i \in 1..Len(calls) :
        calls[i].op \in ServicePans \cup WidgetPans =>
            Post(i) = MovedBy(calls[i].pre, calls[i].op, calls[i].a, calls[i].w, calls[i].h)

\* What the code does: the widget's pans move by 0.2 of the display, the
\* service's pans by the fraction of a display of 100 x 100 cells whatever
\* the size of the display.
C20_PanByWidgetOrEstimate ==
    \A i \in 1..Len(calls) :
        /\ calls[i].op \in WidgetPans =>
              Post(i) = MovedBy(calls[i].pre, calls[i].op, WidgetStep, calls[i].w, calls[i].h)
        /\ calls[i].op \in ServicePans =>
              Post(i) = MovedBy(calls[i].pre, calls[i].op, calls[i].a,
                                EstimatedCells, EstimatedCells)

\* A pan of the service after a zoom, on a display that is not 100 cells
\* wide, and a pan of the widget.
C20_PansMade ==
    /\ Len(calls) = 2
    /\ calls[1].op = "zoom_in"
    /\ calls[2].op = "pan_right"
    /\ calls[2].w # EstimatedCells

(***************************************************************************)
(* C21.  Directions of the service's pans and zooms.                       *)
(***************************************************************************)
\* The (delta_x, delta_y) call i of the service hands to Viewport.pan.
NavDelta(i) ==
    LET v == calls[i].pre
        span_x == FMul(FromInt(EstimatedCells * 2), v.meters_per_pixel)
        span_y == FMul(FromInt(EstimatedCells * 4), v.meters_per_pixel)
    IN  CASE calls[i].op = "pan_left"  -> <<FMul(FNeg(calls[i].a), span_x), FZero>>
          [] calls[i].op = "pan_right" -> <<FMul(calls[i].a, span_x), FZero>>
          [] calls[i].op = "pan_up"    -> <<FZero, FMul(calls[i].a, span_y)>>
          [] calls[i].op = "pan_down"  -> <<FZero, FMul(FNeg(calls[i].a), span_y)>>

\* Call i moved the center strictly in its direction.
MovedStrictly(i) ==
    CASE calls[i].op = "pan_left"  -> FLt(Post(i).center_x, calls[i].pre.center_x)
      [] calls[i].op = "pan_right" -> FLt(calls[i].pre.center_x, Post(i).center_x)
      [] calls[i].op = "pan_up"    -> FLt(calls[i].pre.center_y, Post(i).center_y)
      [] calls[i].op = "pan_down"  -> FLt(Post(i).center_y, calls[i].pre.center_y)

\* Call i did not move the center against its direction.
MovedWeakly(i) ==
    CASE calls[i].op = "pan_left"  -> FLe(Post(i).center_x, calls[i].pre.center_x)
      [] calls[i].op = "pan_right" -> FLe(calls[i].pre.center_x, Post(i).center_x)
      [] calls[i].op = "pan_up"    -> FLe(calls[i].pre.center_y, Post(i).center_y)
      [] calls[i].op = "pan_down"  -> FLe(Post(i).center_y, calls[i].pre.center_y)

\* Call i left the other coordinate and the scale alone.
PanFrame(i) ==
    /\ Post(i).meters_per_pixel = calls[i].pre.meters_per_pixel
    /\ calls[i].op \in {"pan_left", "pan_right"} => Post(i).center_y = calls[i].pre.center_y
    /\ calls[i].op \in {"pan_up", "pan_down"} => Post(i).center_x = calls[i].pre.center_x

\* zoom_in made the scale strictly smaller, zoom_out strictly larger, the
\* center as before.
ZoomDirection(i) ==
    /\ Post(i).center_x = calls[i].pre.center_x
    /\ Post(i).center_y = calls[i].pre.center_y
    /\ calls[i].op = "zoom_in" => FLt(Post(i).meters_per_pixel, calls[i].pre.meters_per_pixel)
    /\ calls[i].op = "zoom_out" => FLt(calls[i].pre.meters_per_pixel, Post(i).meters_per_pixel)

\* Calls i and i + 1 are pan_left then pan_right, or pan_up then pan_down,
\* with the same step.
ThereAndBack(i) ==
    /\ i + 1 <= Len(calls)
    /\ calls[i + 1].a = calls[i].a
    /\ \/ calls[i].op = "pan_left" /\ calls[i + 1].op = "pan_right"
       \/ calls[i].op = "pan_up" /\ calls[i + 1].op = "pan_down"

Restored(i) ==
    /\ Post(i + 1).center_x = calls[i].pre.center_x
    /\ Post(i + 1).center_y = calls[i].pre.center_y

\* The sums of call i need no rounding.
PanIsExact(i) ==
    /\ AddIsExact(calls[i].pre.center_x, NavDelta(i)[1])
    /\ AddIsExact(calls[i].pre.center_y, NavDelta(i)[2])

UserOps == {"pan", "zoom", "reset", "reset_to", "nav_reset"}

\* A navigation action before call i changed the viewport.
UserMovedBefore(i) ==
    \E j \in 1..(i - 1) : calls[j].op \in UserOps /\ Post(j) # calls[j].pre

\* C22: the viewport is mutated only by user navigation actions; the
\* effect of a navigation action on center and scale is never overwritten
\* by work the user did not trigger.
C22_UserActionsNotOverwritten ==
    \A i \in 1..Len(calls) :
        calls[i].op \notin UserOps /\ UserMovedBefore(i) => Post(i) = calls[i].pre

\* What holds: everything but the navigation actions and the one run of
\* _adjust_viewport leaves the viewport alone, and _adjust_viewport runs at
\* most once.
C22_OnlyTimerBesidesUser ==
    /\ \A i \in 1..Len(calls) :
           calls[i].op \notin UserOps \cup {"adjust"} => Post(i) = calls[i].pre
    /\ Cardinality(Calls("adjust")) <= 1

\* A zoom, then the timer: the scale the user chose is gone.
C22_ZoomOverwritten ==
    /\ Len(calls) = 2
    /\ calls[1].op = "zoom" /\ calls[2].op = "adjust"
    /\ calls[2].pre.meters_per_pixel # calls[1].pre.meters_per_pixel
    /\ meters_per_pixel # calls[2].pre.meters_per_pixel

(***************************************************************************)
(* C23.  The shape of the text render returns.                             *)
(***************************************************************************)
\* text is height lines of width characters each, joined by newlines.
HeightByWidth(text, width, height) ==
    /\ Len(text) = height * (width + 1) - 1
    /\ \A k \in 1..Len(text) : (text[k] = Newline) <=> (k % (width + 1) = 0)

RenderedOnLoaded ==
    /\ rlast.op # "none"
    /\ rlast.geometries.loaded
    /\ rlast.width > 0 /\ rlast.height > 0
    /\ FLt(FZero, rlast.viewport.meters_per_pixel)

\* C23: for every viewport (read here on viewports of positive scale),
\* every loaded geometry set, one with no polyline in the viewport
\* included, and every width > 0, height > 0, render returns text of
\* exactly height lines, each of exactly width characters, for a plain list
\* as for an indexed series.
C23_RenderShape ==
    RenderedOnLoaded =>
        /\ ~rlast.ret.raised
        /\ HeightByWidth(rlast.ret.text, rlast.width, rlast.height)

\* What holds: the text has that shape unless it is empty, and it is empty
\* only for a series none of whose bounding boxes meets the viewport.
C23_ShapeUnlessNoCandidate ==
    RenderedOnLoaded =>
        /\ ~rlast.ret.raised
        /\ \/ HeightByWidth(rlast.ret.text, rlast.width, rlast.height)
           \/ /\ rlast.ret.text = <<>>
              /\ rlast.geometries.series
              /\ Candidates(rlast.geometries,
                            RenderBounds(rlast.viewport, rlast.width, rlast.height)) = <<>>

\* A list with no line in the viewport rendered as a blank grid of the
\* size asked for.
C23_BlankList ==
    /\ RenderedOnLoaded
    /\ ~rlast.geometries.series
    /\ rlast.viewport.center_x = FromInt(200)
    /\ HeightByWidth(rlast.ret.text, rlast.width, rlast.height)
    /\ \A k \in 1..Len(rlast.ret.text) : rlast.ret.text[k] \in {Space, Newline}

(***************************************************************************)
(* C24.  The start-up adjustment.                                          *)
(***************************************************************************)
\* Run i of _adjust_viewport had geometry bounds and a screen with room
\* for the map under the header and the footer.
AdjustedToBounds(i) ==
    /\ calls[i].op = "adjust"
    /\ calls[i].w > 0 /\ calls[i].h > 2
    /\ GetGeometryBounds(projected_geometries) # None

\* The rectangle shown after run i on the rows and columns left to the map.
ShownAfter(i) == GetBoundsOf(Post(i), 2 * calls[i].w, 4 * (calls[i].h - 2))

FitsAcross(b, g) == FLe(b[1], g[1]) /\ FLe(g[3], b[3])
FitsUpright(b, g) == FLe(b[2], g[2]) /\ FLe(g[4], b[4])

\* C24: after _adjust_viewport the viewport is centered on the geometry
\* bounds and get_bounds(2 * available_width, 4 * available_height)
\* contains (minx, miny, maxx, maxy) of the geometry.
C24_GeometryFits ==
    \A i \in 1..Len(calls) :
        AdjustedToBounds(i) =>
            LET g == GetGeometryBounds(projected_geometries)
            IN  /\ Post(i).center_x = FDiv(FAdd(g[1], g[3]), FromInt(2))
                /\ Post(i).center_y = FDiv(FAdd(g[2], g[4]), FromInt(2))
                /\ FitsAcross(ShownAfter(i), g)
                /\ FitsUpright(ShownAfter(i), g)

\* What holds: the viewport is centered on the bounds and the geometry fits
\* in one of the two dimensions, the one that gave the smaller scale.
C24_FitsOneDimension ==
    \A i \in 1..Len(calls) :
        AdjustedToBounds(i) =>
            LET g == GetGeometryBounds(projected_geometries)
            IN  /\ Post(i).center_x = FDiv(FAdd(g[1], g[3]), FromInt(2))
                /\ Post(i).center_y = FDiv(FAdd(g[2], g[4]), FromInt(2))
                /\ FitsAcross(ShownAfter(i), g) \/ FitsUpright(ShownAfter(i), g)

\* The coastline on a screen of 80 x 24: fitted across, cut off above and
\* below.
C24_CoastCut ==
    /\ projected_geometries = Coast
    /\ \E i \in 1..Len(calls) :
          /\ AdjustedToBounds(i)
          /\ FitsAcross(ShownAfter(i), GetGeometryBounds(Coast))
          /\ ~FitsUpright(ShownAfter(i), GetGeometryBounds(Coast))

(***************************************************************************)
(* C25.  Termination of the rasterization loop.                            *)
(***************************************************************************)
\* Steps left from subpixel q to the second end of the last segment.
StepsLeft(q) == Larger(Abs(X1 - q[1]), Abs(Y1 - q[2]))

\* q lies between the two ends, in both coordinates.
BetweenEnds(q) ==
    /\ (X0 <= q[1] /\ q[1] <= X1) \/ (X1 <= q[1] /\ q[1] <= X0)
    /\ (Y0 <= q[2] /\ q[2] <= Y1) \/ (Y1 <= q[2] /\ q[2] <= Y0)

\* C25: for every pair of ends, in the canvas or out of it, in any octant,
\* coincident ends included, the loop of _rasterize_line_to_braille ends:
\* every pass brings the current position one step nearer the second end,
\* which it reaches after at most max(|x1 - x0|, |y1 - y0|) steps, without
\* ever stepping past it.
C25_LoopTerminates ==
    glast.op = "line" =>
        LET v == glast.visits
        IN  /\ Len(v) >= 1
            /\ Len(v) - 1 <= Larger(Abs(X1 - X0), Abs(Y1 - Y0))
            /\ v[Len(v)] = <<X1, Y1>>
            /\ \A i \in 1..Len(v) : BetweenEnds(v[i])
            /\ \A i \in 1..(Len(v) - 1) :
                  /\ v[i] # <<X1, Y1>>
                  /\ StepsLeft(v[i + 1]) = StepsLeft(v[i]) - 1

\* A segment from beyond one corner of the canvas to beyond the opposite
\* one: the loop ran its CanvasHeightPx + 3 steps and stopped at the end.
C25_Witness ==
    /\ glast.op = "line"
    /\ glast.p0 = Pt(CanvasWidthPx + 1, -2)
    /\ glast.p1 = Pt(-2, CanvasHeightPx + 1)
    /\ Len(glast.visits) = CanvasHeightPx + 4
    /\ glast.visits[Len(glast.visits)] = <<-2, CanvasHeightPx + 1>>

(***************************************************************************)
(* C27.  A vertex outside the canvas.                                      *)
(***************************************************************************)
\* The position p lies outside [0, width_px) x [0, height_px).
OutsideCanvas(p) ==
    \/ FLt(p[1], FZero) \/ FLe(FromInt(CanvasWidthPx), p[1])
    \/ FLt(p[2], FZero) \/ FLe(FromInt(CanvasHeightPx), p[2])

\* The last segment drawn has both ends at one position outside the canvas.
DegenerateOutside ==
    /\ glast.op = "line"
    /\ glast.p0 = glast.p1
    /\ OutsideCanvas(glast.p0)

\* C27: a degenerate segment whose two ends coincide at a position outside
\* the canvas rectangle, positions with a coordinate strictly between -1
\* and 0 included, sets no bit.
C27_OutsideVertexSetsNothing ==
    DegenerateOutside => braille_grid = glast.pre

\* What holds: such a segment sets no bit when the position truncated
\* toward zero is outside the canvas, i.e. when no coordinate lies strictly
\* between -1 and 0 with the other inside; else it sets the dot of the
\* truncated position.
C27_TruncatedVertex ==
    DegenerateOutside =>
        braille_grid = WithDots(glast.pre, SelectSeq(<< <<X0, Y0>> >>, InCanvas))

\* The vertex (-0.5, 2.5), left of the canvas, set the dot of subpixel
\* (0, 2) on the empty grid.
C27_DotFromOutside ==
    /\ DegenerateOutside
    /\ glast.p0 = <<Round(-1, -1), Round(5, -1)>>
    /\ glast.pre = EmptyBrailleGrid(CanvasCols, CanvasRows)
    /\ braille_grid[1][1] = DotBit(0, 2)

(***************************************************************************)
(* C26.  Culling and the picture.                                          *)
(***************************************************************************)
\* The grid the draw loop gives on every line of the geometry rendered
\* last, nothing culled.
FullGrid ==
    DrawAll(rlast.geometries.lines,
            Xform(rlast.viewport, RenderBounds(rlast.viewport, rlast.width, rlast.height)),
            rlast.width, rlast.height)

\* The grid the last render drew on, from the lines it kept.
CulledGrid ==
    DrawAll(Candidates(rlast.geometries,
                       RenderBounds(rlast.viewport, rlast.width, rlast.height)),
            Xform(rlast.viewport, RenderBounds(rlast.viewport, rlast.width, rlast.height)),
            rlast.width, rlast.height)

\* The last render was of a plain list, with a size and a scale above 0.
RenderedList ==
    /\ RenderedOnLoaded
    /\ ~rlast.geometries.series

\* C26: culling does not change the picture: the text rendered equals the
\* text of rasterizing every polyline of the full set (read here on the
\* plain list, where culling is all that stands between the two).
C26_CullingKeepsPicture ==
    RenderedList => rlast.ret = TextOf(BrailleGridToStr(FullGrid))

\* What holds: the text rendered is that of the lines kept, and culling
\* only takes dots away from the picture of the full set.
C26_CullingOnlyRemoves ==
    RenderedList =>
        /\ rlast.ret = TextOf(BrailleGridToStr(CulledGrid))
        /\ \A r \in 1..rlast.height : \A c \in 1..rlast.width :
              BitsOf(CulledGrid[r][c]) \subseteq BitsOf(FullGrid[r][c])

\* The line at x = -5, half a subpixel left of a viewport that starts at
\* x = -4, was culled and would have set dots in the first column.
C26_EdgeLineCulled ==
    /\ RenderedList
    /\ rlast.viewport = Viewport(FZero, FZero, FromInt(2))
    /\ Len(Candidates(rlast.geometries,
                      RenderBounds(rlast.viewport, rlast.width, rlast.height))) = 1
    /\ CulledGrid # FullGrid
    /\ rlast.ret # TextOf(BrailleGridToStr(FullGrid))

(***************************************************************************)
(* C28.  Stored points kept apart by update_map_data.                      *)
(***************************************************************************)
\* C28: from the empty list, after any sequence of update_map_data calls no
\* two stored points are within epsilon of each other: there are never two
\* whose longitudes differ by less than 0.0001 and whose latitudes differ
\* by less than 0.0001.
C28_PointsApart ==
    \A i \in 1..Len(points) : \A j \in 1..Len(points) :
        i # j => ~Near(points[i], points[j])

\* What holds: a call appends only a point that is near no stored point,
\* and otherwise puts the new point, coordinates and data, in the place of
\* the first stored point near it; the length never goes down.
C28_AppendsOnlyApart ==
    plast.op = "update" /\ ~plast.raised =>
        LET new == MapPoint(plast.longitude, plast.latitude, plast.data)
        IN  IF \E i \in 1..Len(plast.pre) : Near(plast.pre[i], new)
            THEN /\ Len(points) = Len(plast.pre)
                 /\ \E i \in 1..Len(points) :
                       /\ points[i] = new
                       /\ Near(plast.pre[i], new)
                       /\ \A j \in 1..Len(points) : j # i => points[j] = plast.pre[j]
            ELSE points = Append(plast.pre, new)

\* (45, -30) and (45.00012, -30.00003) stored apart, then the update at
\* (45.00005, -30.00003) took the place of the first and lies within
\* epsilon of the second.
C28_MovedTogether ==
    /\ Len(points) = 2
    /\ points[1].longitude = 4500005 /\ points[1].latitude = -3000003
    /\ points[2].longitude = 4500012 /\ points[2].latitude = -3000003
    /\ Near(points[1], points[2])
    /\ plast.op = "update"
    /\ plast.pre[1].longitude = 4500000

(***************************************************************************)
(* C29.  update_map_data with coordinates out of range.                    *)
(***************************************************************************)
\* C29: update_map_data with a longitude outside [-180, 180] or a latitude
\* outside [-90, 90] fails with an error and leaves the stored list as it
\* was, same points, same order, same data; in every reachable state all
\* stored points have coordinates in range.
C29_InvalidUpdateRejected ==
    /\ (plast.op = "update" /\ ~InRange(plast.longitude, plast.latitude))
          => (plast.raised /\ points = plast.pre)
    /\ (plast.op = "update" /\ InRange(plast.longitude, plast.latitude))
          => ~plast.raised
    /\ \A i \in 1..Len(points) : InRange(points[i].longitude, points[i].latitude)

\* Two points stored, then an update at latitude 90.00001 raised and left
\* both as they were.
C29_Witness ==
    /\ plast.op = "update"
    /\ plast.longitude = 0 /\ plast.latitude = 9000001
    /\ plast.raised
    /\ Len(plast.pre) = 2
    /\ plast.pre[1].data # plast.pre[2].data
    /\ points = plast.pre

(***************************************************************************)
(* C30.  The point store is an ordered list.                               *)
(***************************************************************************)
\* a is b with some entries left out, the rest in the order of b.
RECURSIVE IsSubsequence(_, _)
IsSubsequence(a, b) ==
    IF a = <<>> THEN TRUE
    ELSE IF b = <<>> THEN FALSE
    ELSE IF Head(a) = Head(b) THEN IsSubsequence(Tail(a), Tail(b))
    ELSE IsSubsequence(a, Tail(b))

\* After the last call on the store: add_point appended exactly its point,
\* near a stored one or not; clear_points left nothing; get_points
\* returned the stored points in order and the changes its caller made to
\* the list returned left the stored list as it was.
StoreAsList ==
    /\ (plast.op = "add" /\ ~plast.raised) =>
           points = Append(plast.pre, MapPoint(plast.longitude, plast.latitude, plast.data))
    /\ plast.op = "clear" => points = <<>>
    /\ plast.op = "get" => (plast.ret.list = points /\ points = plast.pre)
    /\ plast.op = "modified" => points = plast.pre

\* The visible-point filter returned stored points in their stored order.
VisibleInOrder ==
    rlast.op = "visible" => IsSubsequence(rlast.ret, rlast.pre)

\* A step of the filter leaves the stored list.
FilterLeavesStore == rlast' # rlast => points' = points

\* C30: the point store behaves as an ordered list: add_point always
\* appends exactly one entry (no proximity de-duplication), clear_points
\* leaves the list empty from any state, get_points returns the stored
\* points in insertion order as a copy whose later modification does not
\* change the stored list, and the visible-point filter returns a
\* sub-sequence of the stored points in the same order without changing
\* the stored list.
C30_StoreIsOrderedList ==
    /\ [](StoreAsList /\ VisibleInOrder)
    /\ [][FilterLeavesStore]_vars

\* Three points stored, two of them within epsilon and one more than once;
\* the filter kept some and dropped some; the list get_points returned was
\* emptied by its caller and the store still holds the three.
C30_Witness ==
    /\ Len(points) = 3
    /\ points[1] # points[2]
    /\ Near(points[1], points[2])
    /\ points[3] = points[1]
    /\ rlast.op = "visible" /\ rlast.pre = points
    /\ Len(rlast.ret) = 2
    /\ plast.op = "modified" /\ plast.ret.list = <<>>

====
